---------------------------- MODULE Spec2Model ----------------------------
(***************************************************************************)
(* HyprShare session relay (server.py) and agent PTY loop (agent.py).      *)
(*                                                                         *)
(* Every asyncio task is a process whose position is the await it is       *)
(* suspended on; one action is the code a task runs between two awaits.    *)
(* A send on a channel puts the frame on the channel when the send is      *)
(* started and suspends the sender; the sender learns the outcome when it  *)
(* is resumed.                                                             *)
(*                                                                         *)
(* Text is a sequence of runs <<char, count>>, a byte buffer a sequence of *)
(* runs <<unit, count>> (unit: the bytes repeated), so that the 64 KiB     *)
(* scrollback keeps its real size.                                         *)
(***************************************************************************)
EXTENDS Integers, Sequences, FiniteSets, TLC

\* ------------------------------------------------------------------ bounds

MaxAgents   == 2      \* agent connections (each creates at most one session)
MaxViewers  == 2      \* viewer connections
NumSids     == 2      \* values uuid4().hex[:10] can take in the model
MaxOutputs  == 2      \* output frames one agent produces
MaxInputs   == 2      \* input frames one viewer sends
MaxPings    == 1      \* ping frames one viewer sends
MaxResizes  == 1      \* resize frames one viewer sends
TickStep    == 60     \* seconds the clock advances in one step
MaxDeadFor  == 130    \* the time since a disconnect is counted up to here
MaxBad      == 1      \* unexpected frames one peer sends
MaxWaits    == 10     \* sleeps of one agent's reconnect loop
MaxChunks   == 3      \* chunks the reader thread of app.py reads
MaxPolls    == 3      \* /poll requests on the session of app.py
MaxForks    == 2      \* shells forked for the session of app.py

PollIds == 1..MaxPolls
Agents  == 1..MaxAgents
Viewers == 1..MaxViewers
Sids    == 1..NumSids
NoSess  == 0

\* ------------------------------------------------------- program constants

SCROLLBACK_BYTES == 64 * 1024
SESSION_TTL_AFTER_DISCONNECT == 120

\* -------------------------------------------------------------- sequences

Min(x, y) == IF x <= y THEN x ELSE y

\* ------------------------------------------------------- text and UTF-8

\* Characters "a", "b", "e2", "rep", "sur", "q": two ASCII letters, a two-byte character (U+00E9), the
\* replacement character U+FFFD (three bytes), a lone surrogate (what
\* json.loads makes of "\ud800"), and "?".

\* str.encode("utf-8", errors="replace") of one character.
EncodeChar(c) ==
    CASE c = "a"   -> <<97>>
      [] c = "b"   -> <<98>>
      [] c = "e2"  -> <<195, 169>>
      [] c = "rep" -> <<239, 191, 189>>
      [] c = "sur" -> <<63>>
      [] c = "q"   -> <<63>>

\* Append one run to a run sequence, merging it into an equal last run.
PushRun(runs, r) ==
    IF r[2] = 0 THEN runs
    ELSE IF runs # <<>> /\ runs[Len(runs)][1] = r[1]
         THEN [runs EXCEPT ![Len(runs)] = <<r[1], runs[Len(runs)][2] + r[2]>>]
         ELSE Append(runs, r)

RECURSIVE ConcatRuns(_, _)
ConcatRuns(x, y) ==
    IF y = <<>> THEN x ELSE ConcatRuns(PushRun(x, Head(y)), Tail(y))

RECURSIVE EncodeText(_)
EncodeText(text) ==
    IF text = <<>> THEN <<>>
    ELSE ConcatRuns(<<<<EncodeChar(Head(text)[1]), Head(text)[2]>>>>,
                    EncodeText(Tail(text)))

RunBytes(r) == Len(r[1]) * r[2]

RECURSIVE ByteLen(_)
ByteLen(runs) ==
    IF runs = <<>> THEN 0 ELSE RunBytes(Head(runs)) + ByteLen(Tail(runs))

\* del buf[:k]
RECURSIVE DropHead(_, _)
DropHead(runs, k) ==
    IF k <= 0 \/ runs = <<>> THEN runs
    ELSE LET r    == Head(runs)
             u    == r[1]
             q    == k \div Len(u)
             part == k % Len(u)
         IN  IF RunBytes(r) <= k THEN DropHead(Tail(runs), k - RunBytes(r))
             ELSE IF part = 0 THEN <<<<u, r[2] - q>>>> \o Tail(runs)
             ELSE ConcatRuns(<<<<SubSeq(u, part + 1, Len(u)), 1>>>>,
                             ConcatRuns(PushRun(<<>>, <<u, r[2] - q - 1>>), Tail(runs)))

\* The first k bytes of a buffer (what del buf[k:] keeps).
RECURSIVE TakeHead(_, _)
TakeHead(runs, k) ==
    IF k <= 0 \/ runs = <<>> THEN <<>>
    ELSE LET r == Head(runs)
             u == r[1]
             q == k \div Len(u)
             part == k % Len(u)
         IN  IF RunBytes(r) <= k
             THEN ConcatRuns(<<r>>, TakeHead(Tail(runs), k - RunBytes(r)))
             ELSE ConcatRuns(PushRun(<<>>, <<u, q>>),
                             PushRun(<<>>, <<SubSeq(u, 1, part), IF part = 0 THEN 0 ELSE 1>>))

\* The last k bytes of a buffer, counted from its end.
RECURSIVE TakeTail(_, _)
TakeTail(runs, k) ==
    IF k <= 0 \/ runs = <<>> THEN <<>>
    ELSE LET r     == runs[Len(runs)]
             front == SubSeq(runs, 1, Len(runs) - 1)
             u     == r[1]
             q     == k \div Len(u)
             part  == k % Len(u)
         IN  IF RunBytes(r) <= k
             THEN ConcatRuns(TakeTail(front, k - RunBytes(r)), <<r>>)
             ELSE ConcatRuns(
                    PushRun(<<>>, <<SubSeq(u, Len(u) - part + 1, Len(u)),
                                    IF part = 0 THEN 0 ELSE 1>>),
                    PushRun(<<>>, <<u, q>>))

\* append_output with the trim one byte short: del self.buf[:overflow - 1].
append_output_short_trim(buf, text) ==
    LET ext      == ConcatRuns(buf, EncodeText(text))
        overflow == ByteLen(ext) - SCROLLBACK_BYTES
    IN  IF overflow > 0 THEN DropHead(ext, overflow - 1) ELSE ext

\* append_output with the trim at the wrong end: del self.buf[SCROLLBACK_BYTES:].
append_output_keep_head(buf, text) ==
    LET ext      == ConcatRuns(buf, EncodeText(text))
        overflow == ByteLen(ext) - SCROLLBACK_BYTES
    IN  IF overflow > 0 THEN TakeHead(ext, SCROLLBACK_BYTES) ELSE ext

\* Session.append_output: extend, then trim the overflow from the front.
append_output(buf, text) ==
    LET ext      == ConcatRuns(buf, EncodeText(text))
        overflow == ByteLen(ext) - SCROLLBACK_BYTES
    IN  IF overflow > 0 THEN DropHead(ext, overflow) ELSE ext

\* bytes.decode("utf-8", errors="replace") of the bytes of one unit: a
\* complete sequence gives its character, any other byte U+FFFD.
RECURSIVE DecodeUnit(_)
DecodeUnit(u) ==
    IF u = <<>> THEN <<>>
    ELSE IF u[1] = 97 THEN <<"a">> \o DecodeUnit(Tail(u))
    ELSE IF u[1] = 98 THEN <<"b">> \o DecodeUnit(Tail(u))
    ELSE IF u[1] = 63 THEN <<"q">> \o DecodeUnit(Tail(u))
    ELSE IF u[1] = 195 /\ Len(u) >= 2 /\ u[2] = 169
         THEN <<"e2">> \o DecodeUnit(SubSeq(u, 3, Len(u)))
    ELSE IF u[1] = 239 /\ Len(u) >= 3 /\ u[2] = 191 /\ u[3] = 189
         THEN <<"rep">> \o DecodeUnit(SubSeq(u, 4, Len(u)))
    ELSE <<"rep">> \o DecodeUnit(Tail(u))

RECURSIVE RepeatChars(_, _)
RepeatChars(cs, n) ==
    IF cs = <<>> THEN <<>>
    ELSE PushRun(<<>>, <<Head(cs), n>>) \o RepeatChars(Tail(cs), n)

\* Session.scrollback_text
RECURSIVE scrollback_text(_)
scrollback_text(buf) ==
    IF buf = <<>> THEN <<>>
    ELSE ConcatRuns(RepeatChars(DecodeUnit(Head(buf)[1]), Head(buf)[2]),
                    scrollback_text(Tail(buf)))


\* ------------------------------------------------------------------- time

\* The retry delay is a float; the model counts it in 64ths of a second,
\* in which 2.0 * 1.5^n is a whole number up to the cap of 30.0, as it is
\* exact in binary floating point.
Seconds(n) == n * 64

\* A backoff without the cap: retry_delay * 1.5.
NextDelayUncapped(d) == (d * 3) \div 2

\* run(): retry_delay = min(retry_delay * 1.5, 30.0)
NextDelay(d) == Min((d * 3) \div 2, Seconds(30))

\* ------------------------------------------------------------------ frames

\* A JSON frame: its type, its payload, and two fields that are not on the
\* wire and only name the frame: seq (which output of the session it is;
\* for a replay, how many outputs the session had processed) and src (who
\* made it).
Frame(t, d, k, s) == [type |-> t, data |-> d, seq |-> k, src |-> s]

\* Output data the agents of the relay specification produce.
SmallData == {<<<<"a", 1>>>>, <<<<"b", 1>>>>}

\* Output data of the scrollback specification: short ASCII strings, a
\* 70 000 byte string, strings of two- and three-byte characters that fill
\* the buffer, a lone surrogate.
BigData ==
    { <<<<"a", 3>>>>, <<<<"b", 3>>>>, <<<<"a", 70000>>>>, <<<<"e2", 32768>>>>,
      <<<<"rep", 21845>>, <<"sur", 1>>>>, <<>> }

RegisterDims == <<24, 220>>       \* rows, cols of the register frame
ResizeDims   == {<<30, 100>>}     \* rows, cols of the resize frames

\* rows, cols of the resize frames of the resize specification: two sizes
\* a terminal can have, and one with more columns than a winsize field
\* (unsigned short) holds.
ResizeChoices == {<<30, 100>>, <<40, 120>>, <<40, 70000>>}

NoAgent == 0

\* Frames the relay loops do not expect, by what the code does with them.
\* Skipped by `if not msg: continue` or by matching no branch: text that is
\* not JSON, JSON that is falsy ({}, [], 0, "", null, false), an object
\* with a type no branch handles.
IgnoredKinds == {"notjson", "falsy", "unknown"}

\* msg["type"] raises: JSON that is truthy and no object ([1], 7, "x"), a
\* non-empty object without "type".
UntypedKinds == {"nonobject", "notype"}

\* ws_agent: an output frame without "data" (KeyError) or whose data is no
\* string (AttributeError in append_output, before the buffer changes).
AgentFatalKinds == UntypedKinds \cup {"output_nodata", "output_baddata"}

\* ws_viewer: a resize frame whose cols int() does not accept.
ViewerFatalKinds == UntypedKinds \cup {"resize_badcols"}

\* A resize frame without "rows" or without "cols": msg.get falls back to
\* its default.  The field that is left out is written 0 in the frame's
\* data and never read.
PartialResizeKinds == {"resize_norows", "resize_nocols"}

\* The partial resize frames a viewer sends: kind and <<rows, cols>>.
PartialResizeChoices == {<<"resize_norows", <<0, 100>>>>, <<"resize_nocols", <<30, 0>>>>}

\* msg.get("rows", default) and msg.get("cols", default) of a resize frame.
ResizeRows(f, default) == IF f.type = "resize_norows" THEN default ELSE f.data[1]

ResizeCols(f, default) == IF f.type = "resize_nocols" THEN default ELSE f.data[2]

\* An input frame is forwarded as it is, with or without "data".
InputKinds == {"input", "input_nodata"}

\* ------------------------------------------------------------------- state

VARIABLES
    sessions,     \* _sessions: session id -> session object (or NoSess)
    sess,         \* the Session objects, named by the agent connection that made them
    timers,       \* pending call_later(TTL, pop sid) callbacks
    ah,           \* ws_agent tasks: [pc]
    achan,        \* agent channels: "none", "open", "closed"
    toServer,     \* frames agent -> server not yet received
    toAgent,      \* frames server -> agent not yet received
    acl,          \* the agent process: "off", "registering", "running", "ptydone", "stopped"
    ptyWritten,   \* what each agent has written to its PTY master
    ptySize,      \* window size of each agent's PTY
    vh,           \* ws_viewer tasks: [pc, sess]
    vchan,        \* viewer channels: "none", "open", "stalled", "closed"
    fromViewer,   \* frames viewer -> server not yet received
    vrecv,        \* frames sent to each viewer, in order
    bc,           \* broadcast_to_viewers calls in progress, per task
    hist,         \* history: counters and what has been issued
    run,          \* run() of an agent: [pc, reconnect, retry_delay, k, waits]
    app           \* app.py: one session of the polling server, its threads and polls

vars == <<sessions, sess, timers, ah, achan, toServer, toAgent, acl, ptyWritten,
          ptySize, vh, vchan, fromViewer, vrecv, bc, hist, run, app>>

\* The tasks that call broadcast_to_viewers: an agent handler, a viewer
\* handler, the disconnect task of a session.
Tasks == ({"A"} \X Agents) \cup ({"V"} \X Viewers) \cup ({"D"} \X Agents)

NoSession ==
    [made |-> FALSE, id |-> 0, agent |-> NoAgent, viewers |-> {}, buf |-> <<>>,
     rows |-> 50, cols |-> 220, alive |-> TRUE]

IdleBc == [st |-> "idle", sess |-> NoSess, payload |-> Frame("none", <<>>, 0, "none"),
           snapshot |-> {}, tried |-> {}, dead |-> {}, cur |-> 0]

Init ==
    /\ sessions = [s \in Sids |-> NoSess]
    /\ sess = [a \in Agents |-> NoSession]
    /\ timers = {}
    /\ ah = [a \in Agents |-> [pc |-> "idle"]]
    /\ achan = [a \in Agents |-> "none"]
    /\ toServer = [a \in Agents |-> <<>>]
    /\ toAgent = [a \in Agents |-> <<>>]
    /\ acl = [a \in Agents |-> "off"]
    /\ ptyWritten = [a \in Agents |-> <<>>]
    /\ ptySize = [a \in Agents |-> <<0, 0>>]
    /\ vh = [v \in Viewers |-> [pc |-> "idle", sess |-> NoSess]]
    /\ vchan = [v \in Viewers |-> "none"]
    /\ fromViewer = [v \in Viewers |-> <<>>]
    /\ vrecv = [v \in Viewers |-> <<>>]
    /\ bc = [t \in Tasks |-> IdleBc]
    /\ hist = [issued   |-> <<>>,
               nout     |-> [a \in Agents |-> 0],
               allOut   |-> [a \in Agents |-> <<>>],
               nprod    |-> [a \in Agents |-> 0],
               snap     |-> [v \in Viewers |-> 0],
               nin      |-> [v \in Viewers |-> 0],
               npings   |-> [v \in Viewers |-> 0],
               nresizes |-> [v \in Viewers |-> 0],
               deadFor  |-> [a \in Agents |-> 0],
               asked    |-> [v \in Viewers |-> NoSess],
               addedAt  |-> [v \in Viewers |-> 0],
               outData  |-> [a \in Agents |-> <<>>],
               nbadA    |-> [a \in Agents |-> 0],
               nbadV    |-> [v \in Viewers |-> 0],
               lastResize |-> [v \in Viewers |-> <<0, 0>>],
               joinedDead |-> [v \in Viewers |-> FALSE]]
    /\ run = [pc |-> "off", reconnect |-> TRUE, retry_delay |-> Seconds(2),
              k |-> 1, waits |-> <<>>]
    /\ app = [reg |-> FALSE, alive |-> FALSE, pid |-> 0, fd |-> 0,
              live |-> {}, open |-> {}, nforks |-> 0,
              rd |-> "off", fdl |-> 0, newg |-> 0, cl |-> "idle",
              nsched |-> 0, calls |-> <<>>, queue |-> <<>>, getters |-> <<>>,
              polls |-> [p \in PollIds |-> [pc |-> "idle", out |-> <<>>]],
              resp |-> <<>>]


\* ------------------------------------------------- session registry, helpers

\* create_session: the Session object it builds (agent None, alive True).
create_session(sid, rows, cols) ==
    [made |-> TRUE, id |-> sid, agent |-> NoAgent, viewers |-> {}, buf |-> <<>>,
     rows |-> rows, cols |-> cols, alive |-> TRUE]

\* get_session
get_session(sid) == sessions[sid]

\* _meta_payload: viewers, cols, rows of the meta frame.
MetaPayload(s) == <<Cardinality(s.viewers), s.cols, s.rows>>

\* A send on a channel: the frame joins what the channel carries.
ChannelPut(q, f) == Append(q, f)

\* send_to_agent that returns True whatever the session and the channel.
CanForwardAnyway(a) == TRUE

\* Session.send_to_agent forwards only to an attached agent of a live
\* session, and the send raises on a closed channel.
CanForward(a) == sess[a].agent # NoAgent /\ sess[a].alive /\ achan[a] = "open"

\* A fan-out that leaves out the viewer that connected first.
BcastTargetsButFirst(s) == s.viewers \ {1}

\* list(self.viewers): the viewers one broadcast_to_viewers call sends to.
BcastTargets(s) == s.viewers

\* A broadcast that iterates the live viewer set instead of its snapshot.
BcastRemainingLive(b) == sess[b.sess].viewers \ b.tried

\* The viewers a running broadcast has still to send to.
BcastRemaining(b) == b.snapshot \ b.tried

\* A broadcast that has returned: a handler may call again, the disconnect
\* task has ended.
BcastEnded(t) == [IdleBc EXCEPT !.st = IF t[1] = "D" THEN "end" ELSE "idle"]

\* A broadcast that does not note the viewers whose send raised.
BcastSendToForgetsDead(t, b, w) ==
    /\ vrecv' = IF vchan[w] = "open"
                THEN [vrecv EXCEPT ![w] = ChannelPut(@, b.payload)]
                ELSE vrecv
    /\ bc' = [bc EXCEPT ![t] = [b EXCEPT !.st = "run", !.tried = @ \cup {w}, !.cur = w]]

\* One `await ws.send_text(raw)` of broadcast_to_viewers, to viewer w: the
\* frame goes out, or the send raises and w is noted dead, or (a stalled
\* peer) the frame stays in the write buffer; the call is suspended in
\* this send.
BcastSendTo(t, b, w) ==
    /\ vrecv' = IF vchan[w] = "open"
                THEN [vrecv EXCEPT ![w] = ChannelPut(@, b.payload)]
                ELSE vrecv
    /\ bc' = [bc EXCEPT ![t] =
                [b EXCEPT !.st = "run", !.tried = @ \cup {w}, !.cur = w,
                          !.dead = IF vchan[w] = "closed" THEN @ \cup {w} ELSE @]]

\* The send a broadcast is suspended in does not complete while its peer
\* is stalled.
SendBlocked(b) == b.cur \in Viewers /\ vchan[b.cur] = "stalled"

\* broadcast_to_viewers from its call to its first await, on the session
\* objects S (the caller's changes of this step included).  With no viewer
\* it returns at once.
BcastCall(t, S, a, payload) ==
    LET b == [st |-> "run", sess |-> a, payload |-> payload,
              snapshot |-> BcastTargets(S[a]), tried |-> {}, dead |-> {}, cur |-> 0]
    IN  /\ sess' = S
        /\ IF BcastRemaining(b) = {}
           THEN /\ bc' = [bc EXCEPT ![t] = BcastEnded(t)]
                /\ UNCHANGED vrecv
           ELSE \E w \in BcastRemaining(b) : BcastSendTo(t, b, w)

BcastReturnsAtOnce(S, a) == BcastTargets(S[a]) = {}

\* A broadcast that ends with `self.viewers = snapshot - dead`.
BcastResumeFromSnapshot(t) ==
    LET b == bc[t] IN
    /\ b.st = "run"
    /\ ~SendBlocked(b)
    /\ IF BcastRemaining(b) = {}
       THEN /\ sess' = [sess EXCEPT ![b.sess].viewers = b.snapshot \ b.dead]
            /\ bc' = [bc EXCEPT ![t] = BcastEnded(t)]
            /\ UNCHANGED vrecv
       ELSE /\ \E w \in BcastRemaining(b) : BcastSendTo(t, b, w)
            /\ UNCHANGED sess

\* broadcast_to_viewers resumed after a send: the next send, or
\* `self.viewers -= dead` and the return.
BcastResume(t) ==
    LET b == bc[t] IN
    /\ b.st = "run"
    /\ ~SendBlocked(b)
    /\ IF BcastRemaining(b) = {}
       THEN /\ sess' = [sess EXCEPT ![b.sess].viewers = @ \ b.dead]
            /\ bc' = [bc EXCEPT ![t] = BcastEnded(t)]
            /\ UNCHANGED vrecv
       ELSE /\ \E w \in BcastRemaining(b) : BcastSendTo(t, b, w)
            /\ UNCHANGED sess

BcastReturns(t) == bc[t].st = "run" /\ BcastRemaining(bc[t]) = {}

\* schedule_prune: call_later(TTL, lambda: _sessions.pop(sid, None)).
schedule_prune(sid, owner) ==
    timers \cup {[sid |-> sid, left |-> SESSION_TTL_AFTER_DISCONNECT, owner |-> owner]}

\* _mark_agent_disconnected that forgets `sess.agent = None`.
MarkedDisconnectedKeepsAgent(s) == [s EXCEPT !.alive = FALSE]

\* _mark_agent_disconnected: alive False, agent None, the disconnect
\* broadcast task created, the prune scheduled.
MarkedDisconnected(s) == [s EXCEPT !.alive = FALSE, !.agent = NoAgent]

mark_agent_disconnected(a) ==
    /\ sess' = [sess EXCEPT ![a] = MarkedDisconnected(@)]
    /\ bc' = [bc EXCEPT ![<<"D", a>>] = [IdleBc EXCEPT !.st = "pending"]]
    /\ timers' = schedule_prune(sess[a].id, a)


\* ------------------------------------------------------- ws_agent (server)

\* An agent process connects (run) and sends its register frame; the
\* server accepts and waits for it.  Connections are numbered in the order
\* they are made.
AgentConnect(a) ==
    /\ ah[a].pc = "idle"
    /\ \A b \in Agents : b < a => ah[b].pc # "idle"
    /\ ah' = [ah EXCEPT ![a].pc = "wait_register"]
    /\ achan' = [achan EXCEPT ![a] = "open"]
    /\ acl' = [acl EXCEPT ![a] = "registering"]
    /\ UNCHANGED <<sessions, sess, timers, toServer, toAgent, ptyWritten, ptySize,
                   vh, vchan, fromViewer, vrecv, bc, hist, run, app>>

\* The register frame arrives: create_session under the id uuid4 gives,
\* sess.agent = websocket, and the session reply is sent.
RegisterOk(a, sid) ==
    /\ ah[a].pc = "wait_register"
    /\ sessions' = [sessions EXCEPT ![sid] = a]
    /\ sess' = [sess EXCEPT ![a] =
                  [create_session(sid, RegisterDims[1], RegisterDims[2]) EXCEPT !.agent = a]]
    /\ toAgent' = IF achan[a] = "open"
                  THEN [toAgent EXCEPT ![a] = ChannelPut(@, Frame("session", <<>>, sid, "server"))]
                  ELSE toAgent
    /\ ah' = [ah EXCEPT ![a].pc = "sending_session"]
    /\ hist' = [hist EXCEPT !.issued = Append(@, sid)]
    /\ UNCHANGED <<timers, achan, toServer, acl, ptyWritten, ptySize,
                   vh, vchan, fromViewer, vrecv, bc, run, app>>

\* ws_agent that calls create_session before it looks at the type of the
\* first frame.
RegisterBadAfterCreate(a) ==
    /\ ah[a].pc = "wait_register"
    /\ \E sid \in Sids :
         /\ sessions' = [sessions EXCEPT ![sid] = a]
         /\ sess' = [sess EXCEPT ![a] = create_session(sid, 50, 220)]
         /\ hist' = [hist EXCEPT !.issued = Append(@, sid)]
    /\ ah' = [ah EXCEPT ![a].pc = "done"]
    /\ achan' = [achan EXCEPT ![a] = "closed"]
    /\ UNCHANGED <<timers, toServer, toAgent, acl, ptyWritten, ptySize,
                   vh, vchan, fromViewer, vrecv, bc, run, app>>

\* The handshake fails: wait_for times out after 10 s (TimeoutError), the
\* first frame is not JSON or is JSON without .get (json.loads or msg.get
\* raises), its type is not "register" (close(4000), return), or its rows
\* or cols do not convert (int raises before create_session is called).
\* sess is still None, so finally does nothing; the handler ends and the
\* channel is closed.
RegisterBad(a) ==
    /\ ah[a].pc = "wait_register"
    /\ ah' = [ah EXCEPT ![a].pc = "done"]
    /\ achan' = [achan EXCEPT ![a] = "closed"]
    /\ UNCHANGED <<sessions, sess, timers, toServer, toAgent, acl, ptyWritten, ptySize,
                   vh, vchan, fromViewer, vrecv, bc, hist, run, app>>

\* The send of the session reply returns, or raises on a closed channel
\* (finally: _mark_agent_disconnected).
AgentSessionSent(a) ==
    /\ ah[a].pc = "sending_session"
    /\ IF achan[a] = "open"
       THEN /\ ah' = [ah EXCEPT ![a].pc = "recv"]
            /\ UNCHANGED <<sess, bc, timers>>
       ELSE /\ ah' = [ah EXCEPT ![a].pc = "done"]
            /\ mark_agent_disconnected(a)
    /\ UNCHANGED <<sessions, achan, toServer, toAgent, acl, ptyWritten, ptySize,
                   vh, vchan, fromViewer, vrecv, hist, run, app>>

\* A relay loop that takes the output frames in no particular order (each
\* frame handled by a task of its own).
AgentOutputAnyOrder(a) ==
    /\ ah[a].pc = "recv"
    /\ \E i \in DOMAIN toServer[a] :
         /\ toServer[a][i].type = "output"
         /\ LET d == toServer[a][i].data
                k == toServer[a][i].seq
                S == [sess EXCEPT ![a].buf = append_output(@, d)]
            IN  /\ BcastCall(<<"A", a>>, S, a, Frame("output", d, k, "live"))
                /\ ah' = [ah EXCEPT ![a].pc =
                             IF BcastReturnsAtOnce(S, a) THEN "recv" ELSE "bcast"]
                /\ hist' = [hist EXCEPT !.nout[a] = @ + 1,
                                        !.allOut[a] = ConcatRuns(@, EncodeText(d)),
                                        !.outData[a] = Append(@, d)]
         /\ toServer' = [toServer EXCEPT ![a] =
                           SubSeq(@, 1, i - 1) \o SubSeq(@, i + 1, Len(@))]
    /\ UNCHANGED <<sessions, timers, achan, toAgent, acl, ptyWritten, ptySize,
                   vh, vchan, fromViewer, run, app>>

\* Relay loop, an output frame: append_output, then the fan-out.
AgentOutput(a) ==
    /\ ah[a].pc = "recv"
    /\ toServer[a] # <<>>
    /\ Head(toServer[a]).type = "output"
    /\ LET d == Head(toServer[a]).data
           k == hist.nout[a] + 1
           S == [sess EXCEPT ![a].buf = append_output(@, d)]
       IN  /\ BcastCall(<<"A", a>>, S, a, Frame("output", d, k, "live"))
           /\ ah' = [ah EXCEPT ![a].pc = IF BcastReturnsAtOnce(S, a) THEN "recv" ELSE "bcast"]
           /\ hist' = [hist EXCEPT !.nout[a] = k,
                                   !.allOut[a] = ConcatRuns(@, EncodeText(d)),
                                   !.outData[a] = Append(@, d)]
    /\ toServer' = [toServer EXCEPT ![a] = Tail(@)]
    /\ UNCHANGED <<sessions, timers, achan, toAgent, acl, ptyWritten, ptySize,
                   vh, vchan, fromViewer, run, app>>

\* A relay loop that takes a pong frame and sends nothing.
AgentPongIgnored(a) ==
    /\ ah[a].pc = "recv"
    /\ toServer[a] # <<>>
    /\ Head(toServer[a]).type = "pong"
    /\ toServer' = [toServer EXCEPT ![a] = Tail(@)]
    /\ UNCHANGED <<sessions, sess, timers, ah, achan, toAgent, acl, ptyWritten, ptySize,
                   vh, vchan, fromViewer, vrecv, bc, hist, run, app>>

\* Relay loop, a pong frame: fanned out to the viewers.
AgentPong(a) ==
    /\ ah[a].pc = "recv"
    /\ toServer[a] # <<>>
    /\ Head(toServer[a]).type = "pong"
    /\ BcastCall(<<"A", a>>, sess, a, Frame("pong", <<>>, 0, "agent"))
    /\ ah' = [ah EXCEPT ![a].pc = IF BcastReturnsAtOnce(sess, a) THEN "recv" ELSE "bcast"]
    /\ toServer' = [toServer EXCEPT ![a] = Tail(@)]
    /\ UNCHANGED <<sessions, timers, achan, toAgent, acl, ptyWritten, ptySize,
                   vh, vchan, fromViewer, hist, run, app>>

\* The agent handler's fan-out goes on after a send.
AgentBcastResume(a) ==
    /\ ah[a].pc = "bcast"
    /\ BcastResume(<<"A", a>>)
    /\ ah' = [ah EXCEPT ![a].pc = IF BcastReturns(<<"A", a>>) THEN "recv" ELSE "bcast"]
    /\ UNCHANGED <<sessions, timers, achan, toServer, toAgent, acl, ptyWritten, ptySize,
                   vh, vchan, fromViewer, hist, run, app>>

\* Relay loop, a frame that is skipped: the loop goes on.
AgentIgnored(a) ==
    /\ ah[a].pc = "recv"
    /\ toServer[a] # <<>>
    /\ Head(toServer[a]).type \in IgnoredKinds
    /\ toServer' = [toServer EXCEPT ![a] = Tail(@)]
    /\ UNCHANGED <<sessions, sess, timers, ah, achan, toAgent, acl, ptyWritten, ptySize,
                   vh, vchan, fromViewer, vrecv, bc, hist, run, app>>

\* Relay loop, a frame on which the loop body raises: `except Exception`
\* prints it, finally: _mark_agent_disconnected; the handler returns and
\* the channel is closed.
AgentFrameRaises(a) ==
    /\ ah[a].pc = "recv"
    /\ toServer[a] # <<>>
    /\ Head(toServer[a]).type \in AgentFatalKinds
    /\ toServer' = [toServer EXCEPT ![a] = Tail(@)]
    /\ mark_agent_disconnected(a)
    /\ ah' = [ah EXCEPT ![a].pc = "done"]
    /\ achan' = [achan EXCEPT ![a] = "closed"]
    /\ UNCHANGED <<sessions, toAgent, acl, ptyWritten, ptySize,
                   vh, vchan, fromViewer, vrecv, hist, run, app>>

\* The session marked disconnected as soon as the channel is closed, while
\* frames already received are still relayed.
AgentClosedEarly(a) ==
    /\ ah[a].pc = "recv"
    /\ achan[a] = "closed"
    /\ sess[a].alive
    /\ mark_agent_disconnected(a)
    /\ ah' = [ah EXCEPT ![a].pc = IF toServer[a] = <<>> THEN "done" ELSE "recv"]
    /\ UNCHANGED <<sessions, achan, toServer, toAgent, acl, ptyWritten, ptySize,
                   vh, vchan, fromViewer, vrecv, hist, run, app>>

\* The channel is closed and every frame received: iter_text ends or
\* raises, finally: _mark_agent_disconnected.
AgentClosed(a) ==
    /\ ah[a].pc = "recv"
    /\ toServer[a] = <<>>
    /\ achan[a] = "closed"
    /\ mark_agent_disconnected(a)
    /\ ah' = [ah EXCEPT ![a].pc = "done"]
    /\ UNCHANGED <<sessions, achan, toServer, toAgent, acl, ptyWritten, ptySize,
                   vh, vchan, fromViewer, vrecv, hist, run, app>>

\* The task _mark_agent_disconnected created starts its broadcast.
DisconnectTaskStart(a) ==
    /\ bc[<<"D", a>>].st = "pending"
    /\ BcastCall(<<"D", a>>, sess, a, Frame("disconnect", <<>>, 0, "server"))
    /\ UNCHANGED <<sessions, timers, ah, achan, toServer, toAgent, acl, ptyWritten,
                   ptySize, vh, vchan, fromViewer, hist, run, app>>

DisconnectTaskResume(a) ==
    /\ BcastResume(<<"D", a>>)
    /\ UNCHANGED <<sessions, timers, ah, achan, toServer, toAgent, acl, ptyWritten,
                   ptySize, vh, vchan, fromViewer, hist, run, app>>

\* A prune callback whose time has come: _sessions.pop(sid, None).
PruneTimer(t) ==
    /\ t \in timers
    /\ t.left = 0
    /\ sessions' = [sessions EXCEPT ![t.sid] = NoSess]
    /\ timers' = timers \ {t}
    /\ UNCHANGED <<sess, ah, achan, toServer, toAgent, acl, ptyWritten, ptySize,
                   vh, vchan, fromViewer, vrecv, bc, hist, run, app>>

\* Time passes, by at most step seconds and not beyond a pending callback:
\* the event loop runs a callback that is due before anything later.
Tick(step) ==
    /\ timers # {}
    /\ \A t \in timers : t.left > 0
    /\ LET d == CHOOSE x \in {step} \cup {t.left : t \in timers} :
                    \A y \in {step} \cup {t.left : t \in timers} : x <= y
       IN  /\ timers' = {[t EXCEPT !.left = @ - d] : t \in timers}
           /\ hist' = [hist EXCEPT !.deadFor =
                         [a \in Agents |->
                            IF sess[a].made /\ ~sess[a].alive
                            THEN Min(hist.deadFor[a] + d, MaxDeadFor)
                            ELSE hist.deadFor[a]]]
    /\ UNCHANGED <<sessions, sess, ah, achan, toServer, toAgent, acl, ptyWritten,
                   ptySize, vh, vchan, fromViewer, vrecv, bc, run, app>>


\* ------------------------------------------------------ ws_viewer (server)

\* ws_viewer that adds the viewer to the set and sends the meta frame
\* first, and the replay only after that send.
ViewerConnectAddFirst(v, sid) ==
    /\ \/ /\ vh[v].pc = "idle"
          /\ \A u \in Viewers : u < v => vh[u].pc # "idle"
          /\ get_session(sid) # NoSess
          /\ LET a == get_session(sid) IN
             /\ sess' = [sess EXCEPT ![a].viewers = @ \cup {v}]
             /\ vrecv' = [vrecv EXCEPT ![v] = ChannelPut(@,
                             Frame("meta", MetaPayload(sess[a]), 0, "join"))]
             /\ vh' = [vh EXCEPT ![v] = [pc |-> "pre_replay", sess |-> a]]
          /\ vchan' = [vchan EXCEPT ![v] = "open"]
          /\ UNCHANGED hist
       \/ /\ vh[v].pc = "pre_replay"
          /\ sid = sess[vh[v].sess].id
          /\ LET a == vh[v].sess IN
             /\ vrecv' = IF sess[a].buf # <<>>
                         THEN [vrecv EXCEPT ![v] = ChannelPut(@,
                                  Frame("output", scrollback_text(sess[a].buf),
                                        hist.nout[a], "replay"))]
                         ELSE vrecv
             /\ hist' = [hist EXCEPT !.snap[v] = hist.nout[a],
                                     !.joinedDead[v] = ~sess[a].alive]
          /\ vh' = [vh EXCEPT ![v].pc = "loop"]
          /\ UNCHANGED <<sess, vchan>>
    /\ UNCHANGED <<sessions, timers, ah, achan, toServer, toAgent, acl,
                   ptyWritten, ptySize, fromViewer, bc, run, app>>

\* ws_viewer that leaves the channel open after the error frame.
ViewerNotFoundStaysOpen(v) ==
    /\ vrecv' = [vrecv EXCEPT ![v] = ChannelPut(@, Frame("error", <<>>, 0, "server"))]
    /\ vchan' = [vchan EXCEPT ![v] = "open"]
    /\ vh' = [vh EXCEPT ![v] = [pc |-> "done", sess |-> NoSess]]

\* get_session found nothing: one error frame, websocket.close(), return.
ViewerNotFound(v) ==
    /\ vrecv' = [vrecv EXCEPT ![v] = ChannelPut(@, Frame("error", <<>>, 0, "server"))]
    /\ vchan' = [vchan EXCEPT ![v] = "closed"]
    /\ vh' = [vh EXCEPT ![v] = [pc |-> "done", sess |-> NoSess]]

\* A viewer connects to /viewer/ws/{sid}.  Unknown id: one error frame and
\* the close.  Otherwise the replay frame when the scrollback is not empty,
\* else the meta frame at once; the handler is suspended in that send.
ViewerConnect(v, sid) ==
    /\ vh[v].pc = "idle"
    /\ \A u \in Viewers : u < v => vh[u].pc # "idle"
    /\ LET a == get_session(sid) IN
       IF a = NoSess
       THEN /\ ViewerNotFound(v)
            /\ hist' = [hist EXCEPT !.asked[v] = sid]
       ELSE /\ vchan' = [vchan EXCEPT ![v] = "open"]
            /\ hist' = [hist EXCEPT !.snap[v] = hist.nout[a], !.asked[v] = sid,
                                    !.joinedDead[v] = ~sess[a].alive]
            /\ IF sess[a].buf # <<>>
               THEN /\ vrecv' = [vrecv EXCEPT ![v] = ChannelPut(@,
                                   Frame("output", scrollback_text(sess[a].buf),
                                         hist.nout[a], "replay"))]
                    /\ vh' = [vh EXCEPT ![v] = [pc |-> "sent_replay", sess |-> a]]
               ELSE /\ vrecv' = [vrecv EXCEPT ![v] = ChannelPut(@,
                                   Frame("meta", MetaPayload(sess[a]), 0, "join"))]
                    /\ vh' = [vh EXCEPT ![v] = [pc |-> "sent_meta", sess |-> a]]
    /\ UNCHANGED <<sessions, sess, timers, ah, achan, toServer, toAgent, acl,
                   ptyWritten, ptySize, fromViewer, bc, run, app>>

\* ws_viewer that sends no meta frame after the replay.
ViewerReplaySentNoMeta(v) ==
    /\ vh[v].pc = "sent_replay"
    /\ vh' = [vh EXCEPT ![v].pc = "sent_meta"]
    /\ UNCHANGED <<sessions, sess, timers, ah, achan, toServer, toAgent, acl,
                   ptyWritten, ptySize, vchan, fromViewer, vrecv, bc, hist, run, app>>

\* The replay send returns: the meta frame is sent (a closed channel
\* raises, and the handler ends before its try block).
ViewerReplaySent(v) ==
    /\ vh[v].pc = "sent_replay"
    /\ IF vchan[v] = "open"
       THEN /\ vrecv' = [vrecv EXCEPT ![v] = ChannelPut(@,
                           Frame("meta", MetaPayload(sess[vh[v].sess]), 0, "join"))]
            /\ vh' = [vh EXCEPT ![v].pc = "sent_meta"]
       ELSE /\ vh' = [vh EXCEPT ![v].pc = "done"]
            /\ UNCHANGED vrecv
    /\ UNCHANGED <<sessions, sess, timers, ah, achan, toServer, toAgent, acl,
                   ptyWritten, ptySize, vchan, fromViewer, bc, hist, run, app>>

\* The meta send returns: sess.viewers.add(websocket), then the loop.
ViewerMetaSent(v) ==
    /\ vh[v].pc = "sent_meta"
    /\ sess' = [sess EXCEPT ![vh[v].sess].viewers = @ \cup {v}]
    /\ vh' = [vh EXCEPT ![v].pc = "loop"]
    /\ hist' = [hist EXCEPT !.addedAt[v] = hist.nout[vh[v].sess]]
    /\ UNCHANGED <<sessions, timers, ah, achan, toServer, toAgent, acl,
                   ptyWritten, ptySize, vchan, fromViewer, vrecv, bc, run, app>>

\* finally: sess.viewers.discard(websocket)
ViewerLeaves(v) ==
    /\ sess' = [sess EXCEPT ![vh[v].sess].viewers = @ \ {v}]
    /\ vh' = [vh EXCEPT ![v].pc = "done"]

\* Loop, a ping: forwarded to the agent, or answered with a pong when
\* send_to_agent returns False.
ViewerPing(v) ==
    /\ vh[v].pc = "loop"
    /\ fromViewer[v] # <<>>
    /\ Head(fromViewer[v]).type = "ping"
    /\ fromViewer' = [fromViewer EXCEPT ![v] = Tail(@)]
    /\ LET a == vh[v].sess IN
       IF CanForward(a)
       THEN /\ toAgent' = [toAgent EXCEPT ![a] = ChannelPut(@, Frame("ping", <<>>, 0, "viewer"))]
            /\ vh' = [vh EXCEPT ![v].pc = "fwd"]
            /\ UNCHANGED <<sess, vrecv>>
       ELSE /\ UNCHANGED toAgent
            /\ IF vchan[v] = "open"
               THEN /\ vrecv' = [vrecv EXCEPT ![v] = ChannelPut(@, Frame("pong", <<>>, 0, "server"))]
                    /\ vh' = [vh EXCEPT ![v].pc = "sent_pong"]
                    /\ UNCHANGED sess
               ELSE /\ ViewerLeaves(v)
                    /\ UNCHANGED vrecv
    /\ UNCHANGED <<sessions, timers, ah, achan, toServer, acl, ptyWritten, ptySize,
                   vchan, bc, hist, run, app>>

\* A forward of a ping or an input to the agent returns, or the pong send
\* returns: back to the loop.
ViewerSendReturns(v) ==
    /\ vh[v].pc \in {"fwd", "sent_pong"}
    /\ vh' = [vh EXCEPT ![v].pc = "loop"]
    /\ UNCHANGED <<sessions, sess, timers, ah, achan, toServer, toAgent, acl,
                   ptyWritten, ptySize, vchan, fromViewer, vrecv, bc, hist, run, app>>

\* Inputs handled in no particular order (each frame by a task of its own).
ViewerInputAnyOrder(v) ==
    /\ vh[v].pc = "loop"
    /\ \E i \in DOMAIN fromViewer[v] :
         /\ fromViewer[v][i].type = "input"
         /\ fromViewer' = [fromViewer EXCEPT ![v] =
                             SubSeq(@, 1, i - 1) \o SubSeq(@, i + 1, Len(@))]
         /\ LET a == vh[v].sess IN
            IF CanForward(a)
            THEN /\ toAgent' = [toAgent EXCEPT ![a] = ChannelPut(@, fromViewer[v][i])]
                 /\ vh' = [vh EXCEPT ![v].pc = "fwd"]
            ELSE UNCHANGED <<toAgent, vh>>
    /\ UNCHANGED <<sessions, sess, timers, ah, achan, toServer, acl, ptyWritten, ptySize,
                   vchan, vrecv, bc, hist, run, app>>

\* ws_viewer that ends the handler (finally: discard) when send_to_agent
\* returns False for an input.
ViewerInputLeavesWhenGone(v) ==
    /\ vh[v].pc = "loop"
    /\ fromViewer[v] # <<>>
    /\ Head(fromViewer[v]).type \in InputKinds
    /\ fromViewer' = [fromViewer EXCEPT ![v] = Tail(@)]
    /\ LET a == vh[v].sess IN
       IF CanForward(a)
       THEN /\ toAgent' = [toAgent EXCEPT ![a] = ChannelPut(@, Head(fromViewer[v]))]
            /\ vh' = [vh EXCEPT ![v].pc = "fwd"]
            /\ UNCHANGED sess
       ELSE /\ ViewerLeaves(v)
            /\ UNCHANGED toAgent
    /\ UNCHANGED <<sessions, timers, ah, achan, toServer, acl, ptyWritten, ptySize,
                   vchan, vrecv, bc, hist, run, app>>

\* Loop, an input: forwarded as it is, dropped when the agent is gone.
ViewerInput(v) ==
    /\ vh[v].pc = "loop"
    /\ fromViewer[v] # <<>>
    /\ Head(fromViewer[v]).type \in InputKinds
    /\ fromViewer' = [fromViewer EXCEPT ![v] = Tail(@)]
    /\ LET a == vh[v].sess IN
       IF CanForward(a)
       THEN /\ toAgent' = [toAgent EXCEPT ![a] = ChannelPut(@, Head(fromViewer[v]))]
            /\ vh' = [vh EXCEPT ![v].pc = "fwd"]
       ELSE UNCHANGED <<toAgent, vh>>
    /\ UNCHANGED <<sessions, sess, timers, ah, achan, toServer, acl, ptyWritten, ptySize,
                   vchan, vrecv, bc, hist, run, app>>

\* Loop, a resize: cols and rows are set, the frame is forwarded, and
\* (when send_to_agent returned False at once) the meta broadcast starts.
ViewerResize(v) ==
    /\ vh[v].pc = "loop"
    /\ fromViewer[v] # <<>>
    /\ Head(fromViewer[v]).type = "resize"
    /\ fromViewer' = [fromViewer EXCEPT ![v] = Tail(@)]
    /\ LET a == vh[v].sess
           f == Head(fromViewer[v])
           S == [sess EXCEPT ![a].cols = f.data[2], ![a].rows = f.data[1]]
       IN  IF CanForward(a)
           THEN /\ toAgent' = [toAgent EXCEPT ![a] = ChannelPut(@, f)]
                /\ vh' = [vh EXCEPT ![v].pc = "fwd_resize"]
                /\ sess' = S
                /\ UNCHANGED <<vrecv, bc>>
           ELSE /\ UNCHANGED toAgent
                /\ BcastCall(<<"V", v>>, S, a, Frame("meta", MetaPayload(S[a]), 0, "resize"))
                /\ vh' = [vh EXCEPT ![v].pc = IF BcastReturnsAtOnce(S, a) THEN "loop" ELSE "bcast"]
    /\ hist' = [hist EXCEPT !.lastResize[v] = Head(fromViewer[v]).data]
    /\ UNCHANGED <<sessions, timers, ah, achan, toServer, acl, ptyWritten, ptySize,
                   vchan, run, app>>

\* ws_viewer reads a resize frame without rows or without cols: the field
\* left out keeps the session's value; the frame is forwarded as it is.
ViewerResizePartial(v) ==
    /\ vh[v].pc = "loop"
    /\ fromViewer[v] # <<>>
    /\ Head(fromViewer[v]).type \in PartialResizeKinds
    /\ fromViewer' = [fromViewer EXCEPT ![v] = Tail(@)]
    /\ LET a == vh[v].sess
           f == Head(fromViewer[v])
           S == [sess EXCEPT ![a].cols = ResizeCols(f, @), ![a].rows = ResizeRows(f, @)]
       IN  /\ IF CanForward(a)
              THEN /\ toAgent' = [toAgent EXCEPT ![a] = ChannelPut(@, f)]
                   /\ vh' = [vh EXCEPT ![v].pc = "fwd_resize"]
                   /\ sess' = S
                   /\ UNCHANGED <<vrecv, bc>>
              ELSE /\ UNCHANGED toAgent
                   /\ BcastCall(<<"V", v>>, S, a, Frame("meta", MetaPayload(S[a]), 0, "resize"))
                   /\ vh' = [vh EXCEPT ![v].pc = IF BcastReturnsAtOnce(S, a) THEN "loop" ELSE "bcast"]
           /\ hist' = [hist EXCEPT !.lastResize[v] = <<S[a].rows, S[a].cols>>]
    /\ UNCHANGED <<sessions, timers, ah, achan, toServer, acl, ptyWritten, ptySize,
                   vchan, run, app>>

\* ws_viewer reads a resize frame whose cols is a number and whose rows
\* int() does not accept: sess.cols is assigned, then int() raises and the
\* handler ends.
ViewerResizeBadRows(v) ==
    /\ vh[v].pc = "loop"
    /\ fromViewer[v] # <<>>
    /\ Head(fromViewer[v]).type = "resize_badrows"
    /\ fromViewer' = [fromViewer EXCEPT ![v] = Tail(@)]
    /\ sess' = [sess EXCEPT ![vh[v].sess].cols = Head(fromViewer[v]).data[2],
                            ![vh[v].sess].viewers = @ \ {v}]
    /\ vh' = [vh EXCEPT ![v].pc = "done"]
    /\ vchan' = [vchan EXCEPT ![v] = "closed"]
    /\ UNCHANGED <<sessions, timers, ah, achan, toServer, toAgent, acl, ptyWritten,
                   ptySize, vrecv, bc, hist, run, app>>

\* The forward of the resize returns: the meta broadcast starts.
ViewerResizeForwarded(v) ==
    /\ vh[v].pc = "fwd_resize"
    /\ LET a == vh[v].sess IN
       /\ BcastCall(<<"V", v>>, sess, a, Frame("meta", MetaPayload(sess[a]), 0, "resize"))
       /\ vh' = [vh EXCEPT ![v].pc = IF BcastReturnsAtOnce(sess, a) THEN "loop" ELSE "bcast"]
    /\ UNCHANGED <<sessions, timers, ah, achan, toServer, toAgent, acl, ptyWritten,
                   ptySize, vchan, fromViewer, hist, run, app>>

ViewerBcastResume(v) ==
    /\ vh[v].pc = "bcast"
    /\ BcastResume(<<"V", v>>)
    /\ vh' = [vh EXCEPT ![v].pc = IF BcastReturns(<<"V", v>>) THEN "loop" ELSE "bcast"]
    /\ UNCHANGED <<sessions, timers, ah, achan, toServer, toAgent, acl, ptyWritten,
                   ptySize, vchan, fromViewer, hist, run, app>>

\* Loop, a frame that is skipped: the loop goes on.
ViewerIgnored(v) ==
    /\ vh[v].pc = "loop"
    /\ fromViewer[v] # <<>>
    /\ Head(fromViewer[v]).type \in IgnoredKinds
    /\ fromViewer' = [fromViewer EXCEPT ![v] = Tail(@)]
    /\ UNCHANGED <<sessions, sess, timers, ah, achan, toServer, toAgent, acl, ptyWritten,
                   ptySize, vh, vchan, vrecv, bc, hist, run, app>>

\* Loop, a frame on which the loop body raises: `except (WebSocketDisconnect,
\* Exception): pass`, finally: discard; the handler returns and the channel
\* is closed.
ViewerFrameRaises(v) ==
    /\ vh[v].pc = "loop"
    /\ fromViewer[v] # <<>>
    /\ Head(fromViewer[v]).type \in ViewerFatalKinds
    /\ fromViewer' = [fromViewer EXCEPT ![v] = Tail(@)]
    /\ ViewerLeaves(v)
    /\ vchan' = [vchan EXCEPT ![v] = "closed"]
    /\ UNCHANGED <<sessions, timers, ah, achan, toServer, toAgent, acl, ptyWritten,
                   ptySize, vrecv, bc, hist, run, app>>

\* ws_viewer whose loop ends without the discard of its finally.
ViewerClosedKeepsViewer(v) ==
    /\ vh[v].pc = "loop"
    /\ fromViewer[v] = <<>>
    /\ vchan[v] = "closed"
    /\ vh' = [vh EXCEPT ![v].pc = "done"]
    /\ UNCHANGED <<sessions, sess, timers, ah, achan, toServer, toAgent, acl, ptyWritten,
                   ptySize, vchan, fromViewer, vrecv, bc, hist, run, app>>

\* The viewer's channel is closed and every frame received: the loop ends,
\* finally: discard.
ViewerClosed(v) ==
    /\ vh[v].pc = "loop"
    /\ fromViewer[v] = <<>>
    /\ vchan[v] = "closed"
    /\ ViewerLeaves(v)
    /\ UNCHANGED <<sessions, timers, ah, achan, toServer, toAgent, acl, ptyWritten,
                   ptySize, vchan, fromViewer, vrecv, bc, hist, run, app>>

\* ------------------------------------------------------- the viewer (browser)

ViewerSendsInput(v) ==
    /\ vchan[v] = "open"
    /\ fromViewer' = [fromViewer EXCEPT ![v] =
                        ChannelPut(@, Frame("input", <<v, hist.nin[v] + 1>>, 0, "viewer"))]
    /\ hist' = [hist EXCEPT !.nin[v] = @ + 1]
    /\ UNCHANGED <<sessions, sess, timers, ah, achan, toServer, toAgent, acl,
                   ptyWritten, ptySize, vh, vchan, vrecv, bc, run, app>>

ViewerSendsPing(v) ==
    /\ vchan[v] = "open"
    /\ fromViewer' = [fromViewer EXCEPT ![v] = ChannelPut(@, Frame("ping", <<>>, 0, "viewer"))]
    /\ hist' = [hist EXCEPT !.npings[v] = @ + 1]
    /\ UNCHANGED <<sessions, sess, timers, ah, achan, toServer, toAgent, acl,
                   ptyWritten, ptySize, vh, vchan, vrecv, bc, run, app>>

\* The browser sends a resize frame that leaves out rows or cols, or whose
\* rows is no number.
ViewerSendsOddResize(v, kind, dims) ==
    /\ vchan[v] = "open"
    /\ fromViewer' = [fromViewer EXCEPT ![v] = ChannelPut(@, Frame(kind, dims, 0, "viewer"))]
    /\ hist' = [hist EXCEPT !.nresizes[v] = @ + 1]
    /\ UNCHANGED <<sessions, sess, timers, ah, achan, toServer, toAgent, acl,
                   ptyWritten, ptySize, vh, vchan, vrecv, bc, run, app>>

ViewerSendsResize(v, dims) ==
    /\ vchan[v] = "open"
    /\ fromViewer' = [fromViewer EXCEPT ![v] = ChannelPut(@, Frame("resize", dims, 0, "viewer"))]
    /\ hist' = [hist EXCEPT !.nresizes[v] = @ + 1]
    /\ UNCHANGED <<sessions, sess, timers, ah, achan, toServer, toAgent, acl,
                   ptyWritten, ptySize, vh, vchan, vrecv, bc, run, app>>

\* A peer of the viewer endpoint sends a frame the loop does not expect.
ViewerSendsMalformed(v, kind) ==
    /\ vchan[v] = "open"
    /\ fromViewer' = [fromViewer EXCEPT ![v] = ChannelPut(@, Frame(kind, <<>>, 0, "viewer"))]
    /\ hist' = [hist EXCEPT !.nbadV[v] = @ + 1]
    /\ UNCHANGED <<sessions, sess, timers, ah, achan, toServer, toAgent, acl,
                   ptyWritten, ptySize, vh, vchan, vrecv, bc, run, app>>

\* The peer of an attached viewer stops reading: from now on a send to it
\* does not complete.
ViewerStalls(v) ==
    /\ vchan[v] = "open"
    /\ vh[v].pc = "loop"
    /\ fromViewer[v] = <<>>
    /\ vchan' = [vchan EXCEPT ![v] = "stalled"]
    /\ UNCHANGED <<sessions, sess, timers, ah, achan, toServer, toAgent, acl,
                   ptyWritten, ptySize, vh, fromViewer, vrecv, bc, hist, run, app>>

\* The browser closes its channel (tab closed, network lost).
ViewerGoesAway(v) ==
    /\ vchan[v] = "open"
    /\ vchan' = [vchan EXCEPT ![v] = "closed"]
    /\ UNCHANGED <<sessions, sess, timers, ah, achan, toServer, toAgent, acl,
                   ptyWritten, ptySize, vh, fromViewer, vrecv, bc, hist, run, app>>


\* ------------------------------------------------- the agent (agent.py)

\* _run_session: the session reply arrives; the PTY is forked and sized.
AgentGotSession(a) ==
    /\ acl[a] = "registering"
    /\ toAgent[a] # <<>>
    /\ Head(toAgent[a]).type = "session"
    /\ toAgent' = [toAgent EXCEPT ![a] = Tail(@)]
    /\ acl' = [acl EXCEPT ![a] = "running"]
    /\ ptySize' = [ptySize EXCEPT ![a] = RegisterDims]
    /\ UNCHANGED <<sessions, sess, timers, ah, achan, toServer, ptyWritten,
                   vh, vchan, fromViewer, vrecv, bc, hist, run, app>>

\* pty_reader: a chunk read from the PTY master is sent as an output frame.
AgentPtyOutput(a, d) ==
    /\ acl[a] = "running"
    /\ achan[a] = "open"
    /\ toServer' = [toServer EXCEPT ![a] =
                      ChannelPut(@, Frame("output", d, hist.nprod[a] + 1, "agent"))]
    /\ hist' = [hist EXCEPT !.nprod[a] = @ + 1]
    /\ UNCHANGED <<sessions, sess, timers, ah, achan, toAgent, acl, ptyWritten, ptySize,
                   vh, vchan, fromViewer, vrecv, bc, run, app>>

\* server_reader, an input frame: os.write(fd, data).
AgentInput(a) ==
    /\ acl[a] = "running"
    /\ toAgent[a] # <<>>
    /\ Head(toAgent[a]).type = "input"
    /\ ptyWritten' = [ptyWritten EXCEPT ![a] = Append(@, Head(toAgent[a]).data)]
    /\ toAgent' = [toAgent EXCEPT ![a] = Tail(@)]
    /\ UNCHANGED <<sessions, sess, timers, ah, achan, toServer, acl, ptySize,
                   vh, vchan, fromViewer, vrecv, bc, hist, run, app>>

\* _set_terminal_size: struct.pack("HHHH", rows, cols, 0, 0) and the
\* TIOCSWINSZ ioctl; pack raises for a value outside 0..65535, the
\* exception is swallowed and the window size stays what it was.
set_terminal_size(size, rows, cols) ==
    IF rows \in 0..65535 /\ cols \in 0..65535 THEN <<rows, cols>> ELSE size

\* server_reader reads a resize frame without rows or without cols: the
\* field left out is the rows or cols _run_session read from its own
\* terminal before it registered.
AgentResizePartial(a) ==
    /\ acl[a] = "running"
    /\ toAgent[a] # <<>>
    /\ Head(toAgent[a]).type \in PartialResizeKinds
    /\ ptySize' = [ptySize EXCEPT ![a] =
                     set_terminal_size(@, ResizeRows(Head(toAgent[a]), RegisterDims[1]),
                                          ResizeCols(Head(toAgent[a]), RegisterDims[2]))]
    /\ toAgent' = [toAgent EXCEPT ![a] = Tail(@)]
    /\ UNCHANGED <<sessions, sess, timers, ah, achan, toServer, acl, ptyWritten,
                   vh, vchan, fromViewer, vrecv, bc, hist, run, app>>

\* server_reader, a resize frame: _set_terminal_size(fd, rows, cols).
AgentResize(a) ==
    /\ acl[a] = "running"
    /\ toAgent[a] # <<>>
    /\ Head(toAgent[a]).type = "resize"
    /\ ptySize' = [ptySize EXCEPT ![a] =
                     set_terminal_size(@, Head(toAgent[a]).data[1], Head(toAgent[a]).data[2])]
    /\ toAgent' = [toAgent EXCEPT ![a] = Tail(@)]
    /\ UNCHANGED <<sessions, sess, timers, ah, achan, toServer, acl, ptyWritten,
                   vh, vchan, fromViewer, vrecv, bc, hist, run, app>>

\* server_reader, a ping frame: a pong is sent back.
AgentPing(a) ==
    /\ acl[a] = "running"
    /\ achan[a] = "open"
    /\ toAgent[a] # <<>>
    /\ Head(toAgent[a]).type = "ping"
    /\ toServer' = [toServer EXCEPT ![a] = ChannelPut(@, Frame("pong", <<>>, 0, "agent"))]
    /\ toAgent' = [toAgent EXCEPT ![a] = Tail(@)]
    /\ UNCHANGED <<sessions, sess, timers, ah, achan, acl, ptyWritten, ptySize,
                   vh, vchan, fromViewer, vrecv, bc, hist, run, app>>

\* server_reader, an input frame without "data": m["data"] raises KeyError,
\* which server_reader does not catch; gather raises, the child is killed,
\* the channel closed, and run() retries with a new connection.
AgentBadInput(a) ==
    /\ acl[a] = "running"
    /\ toAgent[a] # <<>>
    /\ Head(toAgent[a]).type = "input_nodata"
    /\ toAgent' = [toAgent EXCEPT ![a] = Tail(@)]
    /\ acl' = [acl EXCEPT ![a] = "stopped"]
    /\ achan' = [achan EXCEPT ![a] = "closed"]
    /\ UNCHANGED <<sessions, sess, timers, ah, toServer, ptyWritten, ptySize,
                   vh, vchan, fromViewer, vrecv, bc, hist, run, app>>

\* server_reader: frames for which json.loads raises (no JSON), or
\* m["type"] raises (null, 0, {}, a list, a number, a string, an object
\* without "type").
AgentRaisingKinds == {"notjson", "falsy", "nonobject", "notype"}

\* server_reader: a frame whose type is none of input, resize, ping falls
\* through the elif chain.
AgentSkippedKinds == {"unknown"}

\* The peer of the agent's channel sends a frame server_reader receives
\* from `async for raw_msg in ws`.
AgentReceives(a, kind) ==
    /\ acl[a] = "running"
    /\ achan[a] = "open"
    /\ toAgent[a] = <<>>
    /\ toAgent' = [toAgent EXCEPT ![a] = ChannelPut(@, Frame(kind, <<>>, 0, "peer"))]
    /\ UNCHANGED <<sessions, sess, timers, ah, achan, toServer, acl, ptyWritten, ptySize,
                   vh, vchan, fromViewer, vrecv, bc, hist, run, app>>

\* server_reader reads a frame of an unknown type: no branch is taken and
\* the loop goes on.
AgentUnknownType(a) ==
    /\ acl[a] = "running"
    /\ toAgent[a] # <<>>
    /\ Head(toAgent[a]).type \in AgentSkippedKinds
    /\ toAgent' = [toAgent EXCEPT ![a] = Tail(@)]
    /\ UNCHANGED <<sessions, sess, timers, ah, achan, toServer, acl, ptyWritten, ptySize,
                   vh, vchan, fromViewer, vrecv, bc, hist, run, app>>

\* server_reader reads a frame for which json.loads or m["type"] raises:
\* the exception is no OSError and no ConnectionClosed, it leaves
\* server_reader and gather, the finally of _run_session kills the child
\* and closes the PTY, and run() leaves `async with`, closing the channel.
AgentFrameUnparsed(a) ==
    /\ acl[a] = "running"
    /\ toAgent[a] # <<>>
    /\ Head(toAgent[a]).type \in AgentRaisingKinds
    /\ toAgent' = [toAgent EXCEPT ![a] = Tail(@)]
    /\ acl' = [acl EXCEPT ![a] = "stopped"]
    /\ achan' = [achan EXCEPT ![a] = "closed"]
    /\ UNCHANGED <<sessions, sess, timers, ah, toServer, ptyWritten, ptySize,
                   vh, vchan, fromViewer, vrecv, bc, hist, run, app>>

\* A peer of the agent endpoint sends a frame the relay loop does not
\* expect.
AgentSendsMalformed(a, kind) ==
    /\ acl[a] = "running"
    /\ achan[a] = "open"
    /\ toServer' = [toServer EXCEPT ![a] = ChannelPut(@, Frame(kind, <<>>, 0, "agent"))]
    /\ hist' = [hist EXCEPT !.nbadA[a] = @ + 1]
    /\ UNCHANGED <<sessions, sess, timers, ah, achan, toAgent, acl, ptyWritten, ptySize,
                   vh, vchan, fromViewer, vrecv, bc, run, app>>

\* pty_reader ends (the read returns nothing or fails): done is set, and
\* server_reader stays suspended on the channel.
AgentPtyEof(a) ==
    /\ acl[a] = "running"
    /\ acl' = [acl EXCEPT ![a] = "ptydone"]
    /\ UNCHANGED <<sessions, sess, timers, ah, achan, toServer, toAgent, ptyWritten,
                   ptySize, vh, vchan, fromViewer, vrecv, bc, hist, run, app>>

\* server_reader gets a frame with done set: it breaks without handling
\* the frame; gather returns, the child is killed and the channel closed.
AgentReadsAfterDone(a) ==
    /\ acl[a] = "ptydone"
    /\ toAgent[a] # <<>>
    /\ toAgent' = [toAgent EXCEPT ![a] = Tail(@)]
    /\ acl' = [acl EXCEPT ![a] = "stopped"]
    /\ achan' = [achan EXCEPT ![a] = "closed"]
    /\ UNCHANGED <<sessions, sess, timers, ah, toServer, ptyWritten, ptySize,
                   vh, vchan, fromViewer, vrecv, bc, hist, run, app>>

\* The channel is lost (network, interrupt) or found closed by the server.
AgentChannelLost(a) ==
    /\ acl[a] \in {"registering", "running", "ptydone"}
    /\ acl' = [acl EXCEPT ![a] = "stopped"]
    /\ achan' = [achan EXCEPT ![a] = "closed"]
    /\ UNCHANGED <<sessions, sess, timers, ah, toServer, toAgent, ptyWritten, ptySize,
                   vh, vchan, fromViewer, vrecv, bc, hist, run, app>>

\* server_reader ends because the server closed the channel with a close
\* frame (`async for` stops after the frames already received): done is
\* set.  With pty_reader ended too, gather returns and the session is torn
\* down; otherwise pty_reader stays blocked in os.read and gather does not
\* return.
AgentServerClosed(a) ==
    /\ acl[a] \in {"running", "ptydone"}
    /\ achan[a] = "closed"
    /\ toAgent[a] = <<>>
    /\ acl' = [acl EXCEPT ![a] = IF acl[a] = "ptydone" THEN "stopped" ELSE "srvdone"]
    /\ UNCHANGED <<sessions, sess, timers, ah, achan, toServer, toAgent, ptyWritten,
                   ptySize, vh, vchan, fromViewer, vrecv, bc, hist, run, app>>

\* With server_reader ended, os.read returns (bytes, whose send raises
\* ConnectionClosed, or nothing): pty_reader breaks, gather returns, the
\* child is killed, the PTY closed, the child reaped.
AgentPtyWakes(a) ==
    /\ acl[a] = "srvdone"
    /\ acl' = [acl EXCEPT ![a] = "stopped"]
    /\ UNCHANGED <<sessions, sess, timers, ah, achan, toServer, toAgent, ptyWritten,
                   ptySize, vh, vchan, fromViewer, vrecv, bc, hist, run, app>>

\* run(): after _run_session has ended and the retry delay has passed, the
\* agent connects again, as the next connection.
AgentReconnect(a) ==
    /\ acl[a] = "stopped"
    /\ a + 1 \in Agents
    /\ AgentConnect(a + 1)

\* --------------------------------------------------- run() (agent.py)

RunUnchanged ==
    UNCHANGED <<sessions, sess, timers, ah, achan, toServer, toAgent, acl, ptyWritten,
                ptySize, vh, vchan, fromViewer, vrecv, bc, hist, app>>

\* run(server_url, reconnect): retry_delay = 2.0, then the first connect.
RunStart(reconnect) ==
    /\ run.pc = "off"
    /\ run' = [run EXCEPT !.pc = "connecting", !.reconnect = reconnect,
                          !.retry_delay = Seconds(2)]
    /\ RunUnchanged

\* After an attempt has ended, whatever its outcome: return when reconnect
\* is off, else `await asyncio.sleep(retry_delay)`.  waits notes, for each
\* sleep, how many attempts in a row have ended without a connect (plus
\* one) and how long the sleep is.
RunAfterAttempt(r) ==
    IF ~r.reconnect
    THEN [r EXCEPT !.pc = "ended"]
    ELSE [r EXCEPT !.pc = "sleeping",
                   !.waits = Append(@, [k |-> r.k, d |-> r.retry_delay])]

\* websockets.connect succeeds: retry_delay = 2.0, then _run_session.
RunConnectOk ==
    /\ run.pc = "connecting"
    /\ run' = [run EXCEPT !.pc = "session", !.retry_delay = Seconds(2), !.k = 1]
    /\ RunUnchanged

\* websockets.connect raises (OSError, a refused handshake).
RunConnectFails ==
    /\ run.pc = "connecting"
    /\ Len(run.waits) < MaxWaits
    /\ run' = RunAfterAttempt(run)
    /\ RunUnchanged

\* _run_session returns or raises ConnectionClosed, OSError or another
\* exception.
RunSessionEnds ==
    /\ run.pc = "session"
    /\ Len(run.waits) < MaxWaits
    /\ run' = RunAfterAttempt(run)
    /\ RunUnchanged

\* The sleep is over: retry_delay = min(retry_delay * 1.5, 30.0), and the
\* next attempt.
RunWakes ==
    /\ run.pc = "sleeping"
    /\ run' = [run EXCEPT !.pc = "connecting", !.retry_delay = NextDelay(@),
                          !.k = @ + 1]
    /\ RunUnchanged

\* KeyboardInterrupt during an attempt: run returns.
RunInterrupted ==
    /\ run.pc \in {"connecting", "session"}
    /\ run' = [run EXCEPT !.pc = "ended"]
    /\ RunUnchanged

\* ------------------------------------------------- app.py, polling server
\*
\* One session of app.py.  A forked shell and its PTY master are named by
\* the number of the fork: app.live holds the shells that run, app.open the
\* PTY masters that are open, app.pid and app.fd what the session dict
\* holds.  A chunk is named by the number of its call_soon_threadsafe.

AppUnchanged ==
    UNCHANGED <<sessions, sess, timers, ah, achan, toServer, toAgent, acl, ptyWritten,
                ptySize, vh, vchan, fromViewer, vrecv, bc, hist, run>>

\* POST /session: pty.fork, the session dict stored under its sid, the
\* reader thread started.
AppCreateSession ==
    /\ app.rd = "off"
    /\ app' = [app EXCEPT !.reg = TRUE, !.alive = TRUE, !.pid = 1, !.fd = 1,
                          !.live = {1}, !.open = {1}, !.nforks = 1, !.rd = "top"]
    /\ AppUnchanged

\* reader_thread, top of the loop: return when the session is not in the
\* registry or not alive, else fd_local = sess["fd"].
ReaderChecks ==
    /\ app.rd = "top"
    /\ app' = IF ~app.reg \/ ~app.alive
              THEN [app EXCEPT !.rd = "ended"]
              ELSE [app EXCEPT !.rd = "read", !.fdl = app.fd]
    /\ AppUnchanged

\* reader_thread: os.read returns data; put_to_queue is handed to the
\* event loop and the loop continues.
ReaderReads ==
    /\ app.rd = "read"
    /\ app.fdl \in app.open /\ app.fdl \in app.live
    /\ app.nsched < MaxChunks
    /\ app' = [app EXCEPT !.nsched = @ + 1, !.calls = Append(@, app.nsched + 1),
                          !.rd = "top"]
    /\ AppUnchanged

\* reader_thread: os.read raises OSError or returns nothing (the shell is
\* gone or the descriptor closed): data is empty, put_respawn_message is
\* handed to the event loop and the thread goes on to fork.
ReaderReadFails ==
    /\ app.rd = "read"
    /\ app.fdl \notin app.open \/ app.fdl \notin app.live
    /\ app' = [app EXCEPT !.nsched = @ + 1, !.calls = Append(@, app.nsched + 1),
                          !.rd = "fork"]
    /\ AppUnchanged

\* reader_thread: pid, new_fd = pty.fork().
ReaderForks ==
    /\ app.rd = "fork"
    /\ app.nforks < MaxForks
    /\ LET g == app.nforks + 1 IN
       app' = [app EXCEPT !.nforks = g, !.live = @ \cup {g}, !.open = @ \cup {g},
                          !.newg = g, !.rd = "update"]
    /\ AppUnchanged

\* reader_thread, with sess["lock"]: the old descriptor closed, fd and pid
\* replaced, alive set True; then the loop starts again.
ReaderUpdates ==
    /\ app.rd = "update"
    /\ app' = [app EXCEPT !.open = @ \ {app.fd}, !.fd = app.newg, !.pid = app.newg,
                          !.alive = TRUE, !.rd = "top"]
    /\ AppUnchanged

\* The shell of the session exits.
ShellExits ==
    /\ app.pid \in app.live
    /\ app' = [app EXCEPT !.live = @ \ {app.pid}]
    /\ AppUnchanged

\* cleanup_old_sessions: with sessions_lock, sess = sessions.pop(sid).
CleanupPops ==
    /\ app.cl = "idle"
    /\ app.reg
    /\ app' = [app EXCEPT !.reg = FALSE, !.cl = "popped"]
    /\ AppUnchanged

\* cleanup_old_sessions: sess["alive"] = False.
CleanupMarks ==
    /\ app.cl = "popped"
    /\ app' = [app EXCEPT !.alive = FALSE, !.cl = "marked"]
    /\ AppUnchanged

\* cleanup_old_sessions: os.killpg / os.kill of sess["pid"].
CleanupKills ==
    /\ app.cl = "marked"
    /\ app' = [app EXCEPT !.live = @ \ {app.pid}, !.cl = "killed"]
    /\ AppUnchanged

\* cleanup_old_sessions: os.close(sess["fd"]).
CleanupCloses ==
    /\ app.cl = "killed"
    /\ app' = [app EXCEPT !.open = @ \ {app.fd}, !.cl = "done"]
    /\ AppUnchanged

\* asyncio.Queue._wakeup_next: the first waiting getter is woken.
WakeNext(getters, polls) ==
    IF getters = <<>> THEN polls
    ELSE [polls EXCEPT ![Head(getters)].pc = "woken"]

\* A response of /poll, in the order the handlers return.
Respond(resp, p, status, out) == Append(resp, [p |-> p, status |-> status, out |-> out])

\* The event loop runs the oldest callback the reader thread handed over:
\* queue.put_nowait(text), which wakes the first waiting getter.
LoopRunsCall ==
    /\ app.calls # <<>>
    /\ app' = [app EXCEPT !.calls = Tail(@), !.queue = Append(@, Head(app.calls)),
                          !.polls = WakeNext(app.getters, @),
                          !.getters = IF @ = <<>> THEN @ ELSE Tail(@)]
    /\ AppUnchanged

\* poll_pty from its start to its first await: 404 for a session that is
\* not there or not alive; with a chunk in the queue get_nowait takes it,
\* the loop of get_nowait takes the rest and the response is returned;
\* with an empty queue the handler waits in queue.get().
PollStart(p) ==
    /\ app.polls[p].pc = "idle"
    /\ \A q \in PollIds : q < p => app.polls[q].pc # "idle"
    /\ app' = IF ~app.reg \/ ~app.alive
              THEN [app EXCEPT !.polls[p].pc = "done",
                               !.resp = Respond(@, p, "404", <<>>)]
              ELSE IF app.queue # <<>>
              THEN [app EXCEPT !.polls[p].pc = "done", !.queue = <<>>,
                               !.resp = Respond(@, p, "ok", app.queue)]
              ELSE [app EXCEPT !.polls[p].pc = "wait", !.getters = Append(@, p)]
    /\ AppUnchanged

\* queue.get() resumes after its getter was woken: with the queue empty
\* again it waits anew; else get_nowait takes the first chunk.  Where
\* wait_for awaits the coroutine itself (inline) the handler goes on at
\* once, takes the rest and returns; where wait_for runs it as a task of
\* its own the handler resumes in a later turn of the event loop.
PollWoken(p, inline) ==
    /\ app.polls[p].pc = "woken"
    /\ app' = IF app.queue = <<>>
              THEN [app EXCEPT !.polls[p].pc = "wait", !.getters = Append(@, p)]
              ELSE IF inline
              THEN [app EXCEPT !.polls[p].pc = "done", !.queue = <<>>,
                               !.resp = Respond(@, p, "ok", app.queue)]
              ELSE [app EXCEPT !.polls[p] = [pc |-> "resume", out |-> <<Head(app.queue)>>],
                               !.queue = Tail(@)]
    /\ AppUnchanged

\* poll_pty resumes after wait_for returned a chunk: the loop of
\* get_nowait takes what the queue holds and the response is returned.
PollResume(p) ==
    /\ app.polls[p].pc = "resume"
    /\ app' = [app EXCEPT !.polls[p] = [pc |-> "done", out |-> <<>>], !.queue = <<>>,
                          !.resp = Respond(@, p, "ok", app.polls[p].out \o app.queue)]
    /\ AppUnchanged

\* The sequence s without the element p.
Without(s, p) == SelectSeq(s, LAMBDA x : x # p)

\* wait_for times out: queue.get() is cancelled, a getter that was woken
\* hands the wake-up to the next one, and the handler returns an empty
\* response with status timeout.
PollTimeout(p) ==
    /\ app.polls[p].pc \in {"wait", "woken"}
    /\ LET rest == Without(app.getters, p)
           pass == app.polls[p].pc = "woken" /\ app.queue # <<>> /\ rest # <<>>
       IN  app' = [app EXCEPT !.polls = [IF pass THEN WakeNext(rest, @) ELSE @
                                            EXCEPT ![p].pc = "done"],
                              !.getters = IF pass THEN Tail(rest) ELSE rest,
                              !.resp = Respond(@, p, "timeout", <<>>)]
    /\ AppUnchanged

\* ---------------------------------------------------------- specifications

TimeStep ==
    \/ \E t \in timers : PruneTimer(t)
    \/ Tick(TickStep)

\* The registry and the life of sessions: agents register under the ids
\* uuid4 gives, relay one output, disconnect; their sessions are pruned; a
\* viewer joins and leaves.
Next ==
    \/ \E a \in Agents :
         \/ AgentConnect(a)
         \/ \E sid \in Sids : RegisterOk(a, sid)
         \/ RegisterBad(a)
         \/ AgentSessionSent(a)
         \/ AgentGotSession(a)
         \/ \E d \in {<<<<"a", 1>>>>} : hist.nprod[a] < 1 /\ AgentPtyOutput(a, d)
         \/ AgentOutput(a)
         \/ AgentBcastResume(a)
         \/ AgentChannelLost(a)
         \/ AgentClosed(a)
         \/ DisconnectTaskStart(a)
         \/ DisconnectTaskResume(a)
    \/ \E sid \in Sids : ViewerConnect(1, sid)
    \/ ViewerReplaySent(1)
    \/ ViewerMetaSent(1)
    \/ ViewerGoesAway(1)
    \/ ViewerClosed(1)
    \/ TimeStep

Spec == Init /\ [][Next]_vars

\* The scrollback: one agent sends outputs of all sizes, one viewer joins.
NextScroll ==
    \/ AgentConnect(1)
    \/ RegisterOk(1, 1)
    \/ AgentSessionSent(1)
    \/ AgentGotSession(1)
    \/ \E d \in BigData : hist.nprod[1] < MaxOutputs /\ AgentPtyOutput(1, d)
    \/ AgentOutput(1)
    \/ AgentBcastResume(1)
    \/ ViewerConnect(1, 1)
    \/ ViewerReplaySent(1)
    \/ ViewerMetaSent(1)

SpecScroll == Init /\ [][NextScroll]_vars

\* Joins against the fan-out: one agent sends outputs while viewers join
\* and leave.
NextJoin ==
    \/ AgentConnect(1)
    \/ RegisterOk(1, 1)
    \/ AgentSessionSent(1)
    \/ AgentGotSession(1)
    \/ \E d \in SmallData : hist.nprod[1] < MaxOutputs /\ AgentPtyOutput(1, d)
    \/ AgentOutput(1)
    \/ AgentBcastResume(1)
    \/ \E v \in Viewers :
         \/ ViewerConnect(v, 1)
         \/ ViewerReplaySent(v)
         \/ ViewerMetaSent(v)
         \/ ViewerGoesAway(v)
         \/ ViewerClosed(v)

SpecJoin == Init /\ [][NextJoin]_vars

\* The agent disconnects while viewers join, and the first viewer pings,
\* resizes and types.
NextDetach ==
    \/ AgentConnect(1)
    \/ RegisterOk(1, 1)
    \/ AgentSessionSent(1)
    \/ AgentGotSession(1)
    \/ \E d \in {<<<<"a", 1>>>>} : hist.nprod[1] < 1 /\ AgentPtyOutput(1, d)
    \/ AgentOutput(1)
    \/ AgentPong(1)
    \/ AgentBcastResume(1)
    \/ AgentPing(1)
    \/ AgentInput(1)
    \/ AgentResize(1)
    \/ AgentChannelLost(1)
    \/ AgentClosed(1)
    \/ DisconnectTaskStart(1)
    \/ DisconnectTaskResume(1)
    \/ \E v \in Viewers :
         \/ ViewerConnect(v, 1)
         \/ ViewerReplaySent(v)
         \/ ViewerMetaSent(v)
         \/ ViewerPing(v)
         \/ ViewerInput(v)
         \/ ViewerResize(v)
         \/ ViewerResizeForwarded(v)
         \/ ViewerSendReturns(v)
         \/ ViewerBcastResume(v)
    \/ hist.nin[1] < 1 /\ ViewerSendsInput(1)
    \/ hist.npings[1] < MaxPings /\ ViewerSendsPing(1)
    \/ \E dims \in ResizeDims : hist.nresizes[1] < MaxResizes /\ ViewerSendsResize(1, dims)

SpecDetach == Init /\ [][NextDetach]_vars

\* Input: viewers type, the server forwards, the agent writes to its PTY.
NextInput ==
    \/ AgentConnect(1)
    \/ RegisterOk(1, 1)
    \/ AgentSessionSent(1)
    \/ AgentGotSession(1)
    \/ AgentInput(1)
    \/ AgentPtyEof(1)
    \/ AgentReadsAfterDone(1)
    \/ AgentChannelLost(1)
    \/ AgentClosed(1)
    \/ \E v \in Viewers :
         \/ ViewerConnect(v, 1)
         \/ ViewerMetaSent(v)
         \/ ViewerInput(v)
         \/ ViewerSendReturns(v)
         \/ hist.nin[v] < MaxInputs /\ ViewerSendsInput(v)

SpecInput == Init /\ [][NextInput]_vars

\* Frames the relay loops do not expect, from the agent and from viewers,
\* around one output.
NextMalformed ==
    \/ AgentConnect(1)
    \/ RegisterOk(1, 1)
    \/ AgentSessionSent(1)
    \/ AgentGotSession(1)
    \/ \E d \in {<<<<"a", 1>>>>} : hist.nprod[1] < 1 /\ AgentPtyOutput(1, d)
    \/ \E kind \in IgnoredKinds \cup AgentFatalKinds :
         hist.nbadA[1] < MaxBad /\ AgentSendsMalformed(1, kind)
    \/ AgentOutput(1)
    \/ AgentBcastResume(1)
    \/ AgentIgnored(1)
    \/ AgentFrameRaises(1)
    \/ AgentBadInput(1)
    \/ AgentChannelLost(1)
    \/ AgentClosed(1)
    \/ DisconnectTaskStart(1)
    \/ DisconnectTaskResume(1)
    \/ \E v \in Viewers :
         \/ ViewerConnect(v, 1)
         \/ ViewerReplaySent(v)
         \/ ViewerMetaSent(v)
         \/ ViewerIgnored(v)
         \/ ViewerFrameRaises(v)
         \/ ViewerInput(v)
         \/ ViewerSendReturns(v)
         \/ \E kind \in IgnoredKinds \cup ViewerFatalKinds \cup {"input_nodata"} :
              hist.nbadV[v] < MaxBad /\ ViewerSendsMalformed(v, kind)

SpecMalformed == Init /\ [][NextMalformed]_vars

\* A viewer stalls during the fan-out of outputs and of the disconnect
\* frame.
NextStall ==
    \/ AgentConnect(1)
    \/ RegisterOk(1, 1)
    \/ AgentSessionSent(1)
    \/ AgentGotSession(1)
    \/ \E d \in {<<<<"a", 1>>>>} : hist.nprod[1] < MaxOutputs /\ AgentPtyOutput(1, d)
    \/ AgentOutput(1)
    \/ AgentBcastResume(1)
    \/ AgentChannelLost(1)
    \/ AgentClosed(1)
    \/ DisconnectTaskStart(1)
    \/ DisconnectTaskResume(1)
    \/ \E v \in Viewers :
         \/ ViewerConnect(v, 1)
         \/ ViewerReplaySent(v)
         \/ ViewerMetaSent(v)
         \/ ViewerStalls(v)

\* The event loop runs every task that can run: a handler whose await has
\* completed is resumed.  Nothing makes a peer connect, type or stall.
FairStall ==
    /\ WF_vars(AgentSessionSent(1))
    /\ WF_vars(AgentOutput(1))
    /\ WF_vars(AgentBcastResume(1))
    /\ WF_vars(AgentClosed(1))
    /\ WF_vars(DisconnectTaskStart(1))
    /\ WF_vars(DisconnectTaskResume(1))
    /\ \A v \in Viewers : WF_vars(ViewerReplaySent(v)) /\ WF_vars(ViewerMetaSent(v))

SpecStall == Init /\ [][NextStall]_vars /\ FairStall

\* Resizes: viewers resize a live session at the same time, with sizes the
\* PTY takes and one it does not; the agent may go away.
NextResize ==
    \/ AgentConnect(1)
    \/ RegisterOk(1, 1)
    \/ AgentSessionSent(1)
    \/ AgentGotSession(1)
    \/ AgentResize(1)
    \/ AgentChannelLost(1)
    \/ AgentClosed(1)
    \/ DisconnectTaskStart(1)
    \/ DisconnectTaskResume(1)
    \/ \E v \in Viewers :
         \/ ViewerConnect(v, 1)
         \/ ViewerMetaSent(v)
         \/ ViewerResize(v)
         \/ ViewerResizeForwarded(v)
         \/ ViewerBcastResume(v)
         \/ \E dims \in ResizeChoices :
              hist.nresizes[v] < MaxResizes /\ ViewerSendsResize(v, dims)

SpecResize == Init /\ [][NextResize]_vars

\* The end of an agent session: the shell exits or the server closes the
\* channel, a viewer pings or not, and the agent reconnects.
NextTeardown ==
    \/ AgentConnect(1)
    \/ AgentReconnect(1)
    \/ \E a \in Agents :
         \/ \E sid \in Sids : RegisterOk(a, sid)
         \/ AgentSessionSent(a)
         \/ AgentGotSession(a)
         \/ hist.nbadA[a] < MaxBad /\ AgentSendsMalformed(a, "output_nodata")
         \/ AgentFrameRaises(a)
         \/ AgentPing(a)
         \/ AgentPong(a)
         \/ AgentBcastResume(a)
         \/ AgentPtyEof(a)
         \/ AgentReadsAfterDone(a)
         \/ AgentServerClosed(a)
         \/ AgentPtyWakes(a)
         \/ AgentChannelLost(a)
         \/ AgentClosed(a)
         \/ DisconnectTaskStart(a)
         \/ DisconnectTaskResume(a)
    \/ ViewerConnect(1, 1)
    \/ ViewerMetaSent(1)
    \/ hist.npings[1] < MaxPings /\ ViewerSendsPing(1)
    \/ ViewerPing(1)
    \/ ViewerSendReturns(1)

\* The event loops of the agent and of the server run every task that can
\* run.  Nothing makes the shell exit or write, the network fail, or a
\* viewer connect or ping.
FairTeardown ==
    /\ WF_vars(AgentReconnect(1))
    /\ \A a \in Agents :
         /\ WF_vars(\E sid \in Sids : RegisterOk(a, sid))
         /\ WF_vars(AgentSessionSent(a))
         /\ WF_vars(AgentGotSession(a))
         /\ WF_vars(AgentFrameRaises(a))
         /\ WF_vars(AgentPing(a))
         /\ WF_vars(AgentPong(a))
         /\ WF_vars(AgentBcastResume(a))
         /\ WF_vars(AgentReadsAfterDone(a))
         /\ WF_vars(AgentServerClosed(a))
         /\ WF_vars(AgentClosed(a))
         /\ WF_vars(DisconnectTaskStart(a))
         /\ WF_vars(DisconnectTaskResume(a))
    /\ WF_vars(ViewerMetaSent(1))
    /\ WF_vars(ViewerPing(1))
    /\ WF_vars(ViewerSendReturns(1))

SpecTeardown == Init /\ [][NextTeardown]_vars /\ FairTeardown

\* The reconnect loop of one agent: connects fail or succeed, sessions end.
NextBackoff ==
    \/ \E reconnect \in BOOLEAN : RunStart(reconnect)
    \/ RunConnectOk
    \/ RunConnectFails
    \/ RunSessionEnds
    \/ RunWakes
    \/ RunInterrupted

SpecBackoff == Init /\ [][NextBackoff]_vars

\* Order: one agent sends outputs and answers a ping while a viewer
\* resizes and the agent goes away, so that output, pong, meta and
\* disconnect broadcasts of different tasks run at the same time.
NextOrder ==
    \/ AgentConnect(1)
    \/ RegisterOk(1, 1)
    \/ AgentSessionSent(1)
    \/ AgentGotSession(1)
    \/ \E d \in {<<<<"a", 1>>>>} : hist.nprod[1] < MaxOutputs /\ AgentPtyOutput(1, d)
    \/ AgentOutput(1)
    \/ AgentPong(1)
    \/ AgentBcastResume(1)
    \/ AgentPing(1)
    \/ AgentResize(1)
    \/ AgentChannelLost(1)
    \/ AgentClosed(1)
    \/ DisconnectTaskStart(1)
    \/ DisconnectTaskResume(1)
    \/ \E v \in Viewers :
         \/ ViewerConnect(v, 1)
         \/ ViewerReplaySent(v)
         \/ ViewerMetaSent(v)
         \/ ViewerPing(v)
         \/ ViewerSendReturns(v)
         \/ ViewerResize(v)
         \/ ViewerResizeForwarded(v)
         \/ ViewerBcastResume(v)
    \/ hist.npings[1] < MaxPings /\ ViewerSendsPing(1)
    \/ \E dims \in ResizeDims : hist.nresizes[2] < MaxResizes /\ ViewerSendsResize(2, dims)

SpecOrder == Init /\ [][NextOrder]_vars

\* The agent's channel delivers frames server_reader does not expect,
\* while a viewer types and the PTY produces output.
NextAgentFrames ==
    \/ AgentConnect(1)
    \/ RegisterOk(1, 1)
    \/ AgentSessionSent(1)
    \/ AgentGotSession(1)
    \/ \E d \in {<<<<"a", 1>>>>} : hist.nprod[1] < MaxOutputs /\ AgentPtyOutput(1, d)
    \/ AgentOutput(1)
    \/ AgentBcastResume(1)
    \/ \E kind \in AgentRaisingKinds \cup AgentSkippedKinds : AgentReceives(1, kind)
    \/ AgentUnknownType(1)
    \/ AgentFrameUnparsed(1)
    \/ AgentInput(1)
    \/ AgentClosed(1)
    \/ DisconnectTaskStart(1)
    \/ DisconnectTaskResume(1)
    \/ \E v \in {1} :
         \/ ViewerConnect(v, 1)
         \/ ViewerReplaySent(v)
         \/ ViewerMetaSent(v)
         \/ ViewerInput(v)
         \/ ViewerSendReturns(v)
         \/ hist.nin[v] < MaxInputs /\ ViewerSendsInput(v)

SpecAgentFrames == Init /\ [][NextAgentFrames]_vars

\* Viewers send resize frames with both fields, with one field left out,
\* and with rows that is no number, while the agent runs or disconnects.
NextResizeFields ==
    \/ AgentConnect(1)
    \/ RegisterOk(1, 1)
    \/ AgentSessionSent(1)
    \/ AgentGotSession(1)
    \/ AgentResize(1)
    \/ AgentResizePartial(1)
    \/ AgentChannelLost(1)
    \/ AgentClosed(1)
    \/ DisconnectTaskStart(1)
    \/ DisconnectTaskResume(1)
    \/ \E v \in Viewers :
         \/ ViewerConnect(v, 1)
         \/ ViewerMetaSent(v)
         \/ ViewerResize(v)
         \/ ViewerResizePartial(v)
         \/ ViewerResizeBadRows(v)
         \/ ViewerResizeForwarded(v)
         \/ ViewerBcastResume(v)
         \/ hist.nresizes[v] < MaxResizes /\ ViewerSendsResize(v, <<40, 120>>)
         \/ \E c \in PartialResizeChoices \cup {<<"resize_badrows", <<0, 90>>>>} :
              hist.nresizes[v] < MaxResizes /\ ViewerSendsOddResize(v, c[1], c[2])

SpecResizeFields == Init /\ [][NextResizeFields]_vars

\* app.py: the reader thread queues chunks while poll requests come, wait,
\* are woken and time out.
NextPoll ==
    \/ AppCreateSession
    \/ ReaderChecks
    \/ ReaderReads
    \/ LoopRunsCall
    \/ \E p \in PollIds :
         \/ PollStart(p)
         \/ \E inline \in BOOLEAN : PollWoken(p, inline)
         \/ PollResume(p)
         \/ PollTimeout(p)

SpecPoll == Init /\ [][NextPoll]_vars

\* app.py: the session's shell exits and is respawned, and
\* cleanup_old_sessions removes the session, while the reader thread runs.
NextCleanup ==
    \/ AppCreateSession
    \/ ReaderChecks
    \/ ReaderReads
    \/ ReaderReadFails
    \/ ReaderForks
    \/ ReaderUpdates
    \/ ShellExits
    \/ CleanupPops
    \/ CleanupMarks
    \/ CleanupKills
    \/ CleanupCloses
    \/ LoopRunsCall
    \/ PollStart(1)

SpecCleanup == Init /\ [][NextCleanup]_vars

\* ------------------------------------------------------------ properties

Joined(v) == vh[v].sess # NoSess

\* Positions of the replay frames and of the live output frames a viewer
\* has been sent.
ReplayPos(v) ==
    {i \in DOMAIN vrecv[v] : vrecv[v][i].type = "output" /\ vrecv[v][i].src = "replay"}

LivePos(v) ==
    {i \in DOMAIN vrecv[v] : vrecv[v][i].type = "output" /\ vrecv[v][i].src = "live"}

\* The last min(N, 65536) bytes of everything a session's agent has output.
OutputSuffix(a) ==
    TakeTail(hist.allOut[a], Min(ByteLen(hist.allOut[a]), 65536))

\* C1: in every reachable state the scrollback of every session holds at
\* most 65536 bytes, whatever output frames the agent has sent.
C1_ScrollbackBounded ==
    \A a \in Agents : ByteLen(sess[a].buf) <= 65536

\* C1 witness: a session that has received more than 65536 bytes in at
\* least two frames and whose scrollback is full.
C1_Witness ==
    \E a \in Agents :
        /\ hist.nout[a] >= 2
        /\ ByteLen(hist.allOut[a]) > 65536
        /\ ByteLen(sess[a].buf) = 65536

HasLive(v, k) == \E i \in LivePos(v) : vrecv[v][i].seq = k

PendingFor(v, a, k) ==
    LET b == bc[<<"A", a>>] IN
    /\ b.st = "run"
    /\ b.payload.type = "output"
    /\ b.payload.seq = k
    /\ v \in BcastRemaining(b)

\* C3: a viewer whose join has completed has been sent (or is being sent)
\* every output the server processed after the viewer's scrollback
\* snapshot: no output is missed.
C3_NoOutputMissed ==
    \A v \in Viewers :
        (vh[v].pc = "loop" /\ vchan[v] = "open")
            => \A k \in (hist.snap[v] + 1)..hist.nout[vh[v].sess] :
                  HasLive(v, k) \/ PendingFor(v, vh[v].sess, k)

\* C4: every live output frame sent to a viewer is an output the server
\* processed after that viewer's replay snapshot, and no output is sent
\* live twice to the same viewer.
C4_LiveAfterSnapshot ==
    \A v \in Viewers : \A i \in LivePos(v) :
        /\ vrecv[v][i].seq > hist.snap[v]
        /\ \A j \in LivePos(v) : j # i => vrecv[v][j].seq # vrecv[v][i].seq

\* C4 witness: a viewer whose replay held output 1 has been sent output 2
\* live.
C4_Witness ==
    \E v \in Viewers :
        /\ ReplayPos(v) = {1}
        /\ vrecv[v][1].seq = 1
        /\ HasLive(v, 2)

\* C5: a replay frame precedes every live output frame sent to the same
\* viewer; a viewer that found scrollback has its replay as first frame
\* before any live output; no live output is sent to a viewer that has
\* not connected.
C5_ReplayBeforeLive ==
    \A v \in Viewers :
        /\ \A i \in LivePos(v) : \A j \in ReplayPos(v) : j < i
        /\ (LivePos(v) # {} /\ hist.snap[v] > 0) => 1 \in ReplayPos(v)
        /\ vh[v].pc = "idle" => vrecv[v] = <<>>

\* C5 witness: a viewer was sent its replay, its meta and then a live
\* output, while another viewer was attached.
C5_Witness ==
    \E v \in Viewers : \E u \in Viewers :
        /\ u # v
        /\ vh[u].pc = "loop"
        /\ ReplayPos(v) = {1}
        /\ \E i \in LivePos(v) : i >= 3

\* The frames a step sends to viewer v, and a session whose agent was
\* marked disconnected before the step.
NewFrames(v) == {i \in DOMAIN vrecv'[v] : i > Len(vrecv[v])}

DeadBefore(a) == a # NoSess /\ sess[a].made /\ ~sess[a].alive

DisconnectCount(q) == Cardinality({i \in DOMAIN q : q[i].type = "disconnect"})

C6_OriginalStep ==
    \A v \in Viewers :
        DeadBefore(vh'[v].sess) =>
            /\ \A i \in NewFrames(v) : vrecv'[v][i].type \notin {"output", "pong", "meta"}
            /\ DisconnectCount(vrecv'[v]) <= 1

\* C6 as stated: once a session's agent is disconnected, no step sends an
\* output, pong or meta frame to a viewer of the session, and a viewer is
\* sent at most one disconnect frame.
C6_NothingAfterDisconnect == [][C6_OriginalStep]_vars

C6_AmendedStep ==
    \A v \in Viewers :
        DeadBefore(vh'[v].sess) =>
            /\ \A i \in NewFrames(v) :
                 /\ vrecv'[v][i].type \in {"output", "pong", "meta", "disconnect"}
                 /\ vrecv'[v][i].type = "output" => vrecv'[v][i].src = "replay"
                 /\ vrecv'[v][i].type = "pong" => vrecv'[v][i].src = "server"
            /\ DisconnectCount(vrecv'[v]) <= 1

\* C6 amended: once a session's agent is marked disconnected, no live
\* output and no pong relayed from the agent is sent to a viewer of the
\* session, and a viewer is sent at most one disconnect frame; the frames
\* still sent are the server's own pong to a pinging viewer, the meta
\* broadcast of a resize, and the replay and meta of a join.
C6_NoRelayAfterDisconnect == [][C6_AmendedStep]_vars

\* C6 witness: a viewer was sent the disconnect frame and after it a pong
\* and a meta frame, and another viewer joined the dead session.
C6_Witness ==
    \E v \in Viewers : \E u \in Viewers : \E i \in DOMAIN vrecv[v] :
        /\ vrecv[v][i].type = "disconnect"
        /\ \E j \in DOMAIN vrecv[v] : j > i /\ vrecv[v][j].type = "pong"
        /\ \E j \in DOMAIN vrecv[v] : j > i /\ vrecv[v][j].type = "meta"
        /\ u # v
        /\ DisconnectCount(vrecv[u]) = 0
        /\ ReplayPos(u) = {1}
        /\ vh[u].pc = "loop"

\* The input numbers of viewer v in a sequence of frames, and in what an
\* agent has written to its PTY.
InputNums(q, v) ==
    LET Mine(f) == f.type = "input" /\ f.data[1] = v
        m == SelectSeq(q, Mine)
    IN  [i \in 1..Len(m) |-> m[i].data[2]]

WrittenNums(a, v) ==
    LET Mine(d) == d[1] = v
        m == SelectSeq(ptyWritten[a], Mine)
    IN  [i \in 1..Len(m) |-> m[i][2]]

Counting(q) == \A i \in 1..Len(q) : q[i] = i

Increasing(q) == \A i \in 1..Len(q) : \A j \in 1..Len(q) : i < j => q[i] < q[j]

\* The agent is attached: the server holds its channel and the channel
\* is open.
Attached(a) == sess[a].alive /\ achan[a] = "open"

\* C7: the input of one viewer written to the PTY, then that on the way
\* to the agent, then that on the way to the server, is in the order the
\* viewer sent it with nothing twice; what is written to the PTY is the
\* viewer's input 1, 2, ... with no gap; and while the agent is attached
\* it is all the input the viewer has sent: none has been dropped.
C7_InputOrder ==
    \A v \in Viewers :
        Joined(v) =>
            LET a == vh[v].sess
                w == WrittenNums(a, v)
                q == InputNums(toAgent[a], v)
                r == InputNums(fromViewer[v], v)
            IN  /\ Increasing(w \o q \o r)
                /\ Counting(w)
                /\ Attached(a) =>
                      /\ Counting(w \o q \o r)
                      /\ Len(w \o q \o r) = hist.nin[v]

\* C7 witness: the agent has written both inputs of one viewer and an
\* input of the other to its PTY.
C7_Witness ==
    \E a \in Agents : \E v \in Viewers : \E u \in Viewers :
        /\ u # v
        /\ WrittenNums(a, v) = <<1, 2>>
        /\ Len(WrittenNums(a, u)) >= 1

\* C8: a session whose agent disconnected less than 120 s ago still
\* resolves in the registry, and one whose agent disconnected more than
\* 125 s ago is no longer in it.
C8_PruneWindow ==
    \A a \in Agents :
        (sess[a].made /\ ~sess[a].alive) =>
            /\ hist.deadFor[a] < 120 => sessions[sess[a].id] # NoSess
            /\ hist.deadFor[a] > 125 => sessions[sess[a].id] # a

\* C9: every id create_session returns differs from every id it returned
\* before.
C9_IdsUnique ==
    \A i \in DOMAIN hist.issued : \A j \in DOMAIN hist.issued :
        i < j => hist.issued[i] # hist.issued[j]

\* C10: in every state (the tasks are at their awaits) each session has
\* alive = (agent is not None).
C10_AliveIffAgent ==
    \A a \in Agents : sess[a].made => (sess[a].alive <=> sess[a].agent # NoAgent)

\* C10 witness: one session is attached and relaying to a viewer, another
\* has been disconnected and pruned.
C10_Witness ==
    \E a \in Agents : \E b \in Agents :
        /\ sess[a].made /\ sess[a].alive /\ sess[a].agent = a /\ sess[a].viewers # {}
        /\ sess[b].made /\ ~sess[b].alive /\ sess[b].agent = NoAgent
        /\ sessions[sess[b].id] = NoSess

C11_Step ==
    \A a \in Agents :
        DeadBefore(a) =>
            /\ sess'[a].made /\ ~sess'[a].alive /\ sess'[a].agent = NoAgent
            /\ \A b \in Agents :
                 (~sess[b].made /\ sess'[b].made) => sess'[b].id # sess[a].id

\* C11: once a session's alive flag is false it stays false and its agent
\* stays None, and a session created afterwards (an agent reconnecting)
\* never gets the id of a session that is dead.
C11_NoResurrection == [][C11_Step]_vars

C12_Step ==
    /\ \A a \in Agents :
         (/\ ah[a].pc = "recv"
          /\ toServer[a] # <<>>
          /\ Head(toServer[a]).type \in IgnoredKinds \cup AgentFatalKinds
          /\ toServer'[a] = Tail(toServer[a]))
            => /\ ah'[a].pc = "recv"
               /\ achan'[a] = achan[a]
               /\ sess'[a] = sess[a]
    /\ \A v \in Viewers :
         (/\ vh[v].pc = "loop"
          /\ fromViewer[v] # <<>>
          /\ Head(fromViewer[v]).type \in IgnoredKinds \cup ViewerFatalKinds \cup {"input_nodata"}
          /\ fromViewer'[v] = Tail(fromViewer[v]))
            => /\ vh'[v].pc = "loop"
               /\ vchan'[v] = vchan[v]
               /\ sess' = sess
               /\ toAgent' = toAgent

\* C12: the step in which a relay loop takes a frame that is not JSON, is
\* no object, has no type or an unknown type, or has a known type with a
\* missing or ill-typed payload changes nothing: the handler stays in its
\* loop, the channel stays as it was, the session and its viewer set are
\* unchanged and nothing is forwarded.
C12_MalformedIgnored == [][C12_Step]_vars

ErrorCount(q) == Cardinality({i \in DOMAIN q : q[i].type = "error"})

\* A viewer handler that found no session has sent one error frame and
\* nothing else, its channel is closed and it is in no viewer set.
C13_Turned(v) ==
    (vh[v].pc # "idle" /\ vh[v].sess = NoSess) =>
        /\ vh[v].pc = "done"
        /\ vrecv[v] = <<Frame("error", <<>>, 0, "server")>>
        /\ vchan[v] = "closed"
        /\ \A a \in Agents : v \notin sess[a].viewers

C13_Step ==
    \A v \in Viewers :
        (vh[v].pc = "idle" /\ vh'[v].pc # "idle") =>
            IF sessions[hist'.asked[v]] = NoSess
            THEN /\ vh'[v].sess = NoSess
                 /\ sess' = sess /\ sessions' = sessions /\ timers' = timers
            ELSE /\ vh'[v].sess = sessions[hist'.asked[v]]
                 /\ ErrorCount(vrecv'[v]) = 0

\* C13: a viewer connecting with an id that is not in the registry (never
\* issued, or pruned) is sent exactly one error frame and its channel is
\* closed; it is in no viewer set and the step changes no session, registry
\* entry or timer; a viewer whose id is in the registry gets no error frame.
C13_NotFound == [](\A v \in Viewers : C13_Turned(v)) /\ [][C13_Step]_vars

\* C13 witness: a viewer asked for the id of a session that had been
\* registered and pruned, and was turned away.
C13_Witness ==
    \E v \in Viewers : \E a \in Agents :
        /\ vh[v].pc = "done" /\ vh[v].sess = NoSess
        /\ sess[a].made /\ ~sess[a].alive /\ sess[a].id = hist.asked[v]
        /\ sessions[hist.asked[v]] = NoSess
        /\ ErrorCount(vrecv[v]) = 1

IsReplay(f) == f.type = "output" /\ f.src = "replay"

IsJoinMeta(f) == f.type = "meta" /\ f.src = "join"

C15_Step ==
    \A v \in Viewers :
        (vh[v].pc = "sent_meta" /\ vh'[v].pc = "loop") =>
            \E i \in DOMAIN vrecv'[v] :
                /\ IsJoinMeta(vrecv'[v][i])
                /\ vrecv'[v][i].data[1] >= 1
                /\ vrecv'[v][i].data[1] = Cardinality(sess'[vh[v].sess].viewers)

\* C15: when a join completes (the viewer enters the viewer set), the
\* viewers field of the meta frame the viewer was sent counts that viewer:
\* it is the number of viewers then attached, 1 for the first viewer.
C15_MetaCountsJoiner == [][C15_Step]_vars

LiveCount(v, k) == Cardinality({i \in LivePos(v) : vrecv[v][i].seq = k})

\* C16: a viewer that was in the viewer set when the fan-out of an output
\* enumerated it, and whose channel is open, has been sent exactly one
\* output frame for that output, or the fan-out is still running and has
\* it to send to; every such frame carries the data of the agent's frame.
C16_FanOut ==
    /\ \A v \in Viewers :
         (Joined(v) /\ v \in sess[vh[v].sess].viewers /\ vchan[v] = "open") =>
             \A k \in (hist.addedAt[v] + 1)..hist.nout[vh[v].sess] :
                 \/ LiveCount(v, k) = 1
                 \/ LiveCount(v, k) = 0 /\ PendingFor(v, vh[v].sess, k)
    /\ \A v \in Viewers : \A i \in LivePos(v) :
         /\ vrecv[v][i].seq \in 1..hist.nout[vh[v].sess]
         /\ vrecv[v][i].data = hist.outData[vh[v].sess][vrecv[v][i].seq]

\* C16 witness: two viewers attached before the agent's second output
\* have each been sent one output frame with its data.
C16_Witness ==
    \E a \in Agents :
        /\ hist.nout[a] = 2
        /\ bc[<<"A", a>>].st = "idle"
        /\ \A v \in Viewers :
             /\ vh[v].sess = a
             /\ v \in sess[a].viewers
             /\ hist.addedAt[v] <= 1
             /\ LiveCount(v, 2) = 1

\* The step in which the fan-out of agent a's handler returns.
FanOutReturns(a) == bc[<<"A", a>>].st = "run" /\ bc'[<<"A", a>>].st = "idle"

C17_Step ==
    \A a \in Agents :
        LET b == bc[<<"A", a>>] IN
        FanOutReturns(a) =>
            /\ b.tried = b.snapshot
            /\ b.dead \subseteq b.snapshot
            /\ sess'[a].viewers = sess[a].viewers \ b.dead
            /\ sess'[a].alive = sess[a].alive /\ sess'[a].agent = sess[a].agent
            /\ ah'[a].pc = "recv"
            /\ toServer'[a] = toServer[a]
            /\ vrecv' = vrecv
            /\ b.payload.type = "output" =>
                 \A w \in b.snapshot :
                     IF LiveCount(w, b.payload.seq) = 0
                     THEN w \in b.dead /\ vchan[w] = "closed" /\ w \notin sess'[a].viewers
                     ELSE w \notin b.dead /\ LiveCount(w, b.payload.seq) = 1

\* C17: when a fan-out returns, every viewer of its snapshot has been
\* tried once; those whose send raised got no frame and are removed from
\* the viewer set, every other got the frame exactly once; nothing is
\* sent again, and the agent's handler is back in its relay loop with the
\* session's alive flag and agent unchanged.
C17_FailingViewer == [][C17_Step]_vars

\* C17 witness: a fan-out removed a viewer whose channel was closed while
\* its own handler had not yet noticed, the other viewer got the output,
\* and the session is alive with the handler in its loop.
C17_Witness ==
    \E a \in Agents : \E v \in Viewers : \E u \in Viewers :
        /\ u # v
        /\ vh[v].sess = a /\ vh[v].pc = "loop" /\ vchan[v] = "closed"
        /\ v \notin sess[a].viewers
        /\ hist.addedAt[v] = 0
        /\ LiveCount(v, 1) = 0
        /\ u \in sess[a].viewers /\ LiveCount(u, 1) = 1
        /\ sess[a].alive /\ ah[a].pc = "recv"

\* C18: a viewer that a running fan-out of output k has still to send to,
\* and whose channel is open, is eventually sent output k (or its channel
\* stops being open), whatever the other viewers do; and every fan-out of
\* the agent's handler eventually returns to the relay loop.
C18_NeverBlocks ==
    /\ \A v \in Viewers : \A k \in 1..MaxOutputs :
         (PendingFor(v, 1, k) /\ vchan[v] = "open")
            ~> (HasLive(v, k) \/ vchan[v] # "open")
    /\ \A a \in Agents : (ah[a].pc = "bcast") ~> (ah[a].pc # "bcast")

\* A session whose agent has been marked disconnected is detached and has
\* had its prune scheduled; no viewer is sent a second disconnect frame.
C19_Detached ==
    /\ \A a \in Agents :
         (ah[a].pc = "done" /\ sess[a].made) =>
             /\ ~sess[a].alive /\ sess[a].agent = NoAgent
             /\ \/ \E t \in timers : t.sid = sess[a].id /\ t.owner = a
                \/ hist.deadFor[a] >= SESSION_TTL_AFTER_DISCONNECT
             /\ bc[<<"D", a>>].st # "idle"
    /\ \A v \in Viewers : DisconnectCount(vrecv[v]) <= 1

\* C19: when the agent's channel closes or its handler fails the session
\* eventually becomes detached with a prune scheduled, and every viewer
\* that is attached with an open channel when the disconnect broadcast is
\* created is eventually sent exactly one disconnect frame (or its channel
\* stops being open).
C19_DisconnectReachesViewers ==
    /\ []C19_Detached
    /\ \A a \in Agents :
         (achan[a] = "closed" /\ sess[a].made) ~> (~sess[a].alive /\ sess[a].agent = NoAgent)
    /\ \A a \in Agents : \A v \in Viewers :
         (bc[<<"D", a>>].st = "pending" /\ v \in sess[a].viewers /\ vchan[v] = "open")
            ~> (DisconnectCount(vrecv[v]) = 1 \/ vchan[v] # "open")

\* The agent of session a can be reached: the session is alive with its
\* agent attached and the agent's channel is open.
Reachable(a) == sess[a].alive /\ sess[a].agent # NoAgent /\ achan[a] = "open"

ServerPongCount(q) ==
    Cardinality({i \in DOMAIN q : q[i].type = "pong" /\ q[i].src = "server"})

C20_Step ==
    \A v \in Viewers :
        LET a == vh[v].sess IN
        /\ (/\ vh[v].pc = "loop"
            /\ vchan[v] = "open"
            /\ fromViewer[v] # <<>>
            /\ Head(fromViewer[v]).type = "ping"
            /\ fromViewer'[v] = Tail(fromViewer[v]))
              => IF Reachable(a)
                 THEN /\ toAgent' = [toAgent EXCEPT ![a] =
                                        Append(@, Frame("ping", <<>>, 0, "viewer"))]
                      /\ vrecv' = vrecv
                      /\ vh'[v].pc = "fwd"
                 ELSE /\ toAgent' = toAgent
                      /\ vrecv' = [vrecv EXCEPT ![v] =
                                      Append(@, Frame("pong", <<>>, 0, "server"))]
        /\ (vh[v].pc = "fwd" /\ vh'[v].pc # "fwd") => vrecv' = vrecv

\* C20: the step that takes a viewer's ping forwards one ping frame to the
\* agent and sends no pong when the agent can be reached, and the handler
\* sends none when the forward returns; when the agent is detached or its
\* channel is closed it forwards nothing and sends one pong to the pinging
\* viewer only.  A viewer is never sent more server pongs than it has sent
\* pings.
C20_PingForwardOrPong ==
    /\ [](\A v \in Viewers : ServerPongCount(vrecv[v]) <= hist.npings[v])
    /\ [][C20_Step]_vars

\* C20 witness: with the agent detached a pinging viewer was sent the
\* server's pong, and the other attached viewer none.
C20_Witness ==
    \E v \in Viewers : \E u \in Viewers :
        /\ u # v
        /\ Joined(v) /\ ~sess[vh[v].sess].alive
        /\ ServerPongCount(vrecv[v]) = 1
        /\ toAgent[vh[v].sess] = <<>>
        /\ vh[u].sess = vh[v].sess /\ u \in sess[vh[u].sess].viewers
        /\ \A i \in DOMAIN vrecv[u] : vrecv[u][i].type # "pong"

HasInput(q) == \E i \in DOMAIN q : q[i].type \in InputKinds

C21_Step ==
    \A v \in Viewers :
        (/\ vh[v].pc = "loop"
         /\ fromViewer[v] # <<>>
         /\ Head(fromViewer[v]).type = "input"
         /\ fromViewer'[v] = Tail(fromViewer[v])
         /\ DeadBefore(vh[v].sess))
            => /\ toAgent' = toAgent /\ toServer' = toServer /\ vrecv' = vrecv
               /\ vh' = vh /\ vchan' = vchan /\ achan' = achan
               /\ sess' = sess /\ sessions' = sessions
               /\ bc' = bc /\ ptyWritten' = ptyWritten

\* C21: the step in which a viewer handler takes an input frame while its
\* session is detached sends nothing on any channel and starts no
\* broadcast; the handler stays in its loop with its channel as it was,
\* and the session (viewer set, scrollback, cols, rows, alive, agent) and
\* the registry are unchanged.
C21_DetachedInputDropped == [][C21_Step]_vars

\* C21 witness: a viewer that joined after the disconnect broadcast had
\* taken its snapshot typed; its input was taken, reached neither the
\* agent's channel nor its PTY, and the viewer is still attached.
C21_Witness ==
    \E v \in Viewers :
        /\ Joined(v)
        /\ ~sess[vh[v].sess].alive
        /\ bc[<<"D", vh[v].sess>>].st = "end"
        /\ DisconnectCount(vrecv[v]) = 0
        /\ v \in sess[vh[v].sess].viewers
        /\ vh[v].pc = "loop" /\ vchan[v] = "open"
        /\ hist.nin[v] = 1 /\ fromViewer[v] = <<>>
        /\ ~HasInput(toAgent[vh[v].sess])
        /\ ptyWritten[vh[v].sess] = <<>>

HasResize(q) == \E i \in DOMAIN q : q[i].type = "resize"

\* The step in which viewer v's handler starts the meta broadcast of a
\* resize.
ResizeMetaStarts(v) == bc[<<"V", v>>].st = "idle" /\ bc'[<<"V", v>>].st = "run"

\* The server takes a resize of a viewer of a reachable agent: the
\* session gets the frame's rows and cols and the frame goes to the agent.
C22_ServerStep ==
    \A v \in Viewers :
        (/\ vh[v].pc = "loop"
         /\ fromViewer[v] # <<>>
         /\ Head(fromViewer[v]).type = "resize"
         /\ fromViewer'[v] = Tail(fromViewer[v])
         /\ Reachable(vh[v].sess))
            => LET a == vh[v].sess
                   f == Head(fromViewer[v])
               IN  /\ sess'[a].rows = f.data[1]
                   /\ sess'[a].cols = f.data[2]
                   /\ toAgent'[a] = Append(toAgent[a], f)

\* The agent takes a resize frame: the PTY gets the frame's rows and cols.
C22_AgentStep ==
    \A a \in Agents :
        (/\ acl[a] = "running"
         /\ toAgent[a] # <<>>
         /\ Head(toAgent[a]).type = "resize"
         /\ toAgent'[a] = Tail(toAgent[a]))
            => ptySize'[a] = Head(toAgent[a]).data

\* The meta broadcast of a resize carries the rows and cols of the frame
\* that caused it and goes to every viewer in the viewer set.
C22_MetaStep ==
    \A v \in Viewers :
        ResizeMetaStarts(v) =>
            LET b == bc'[<<"V", v>>] IN
            /\ b.payload.type = "meta"
            /\ b.payload.data[2] = hist'.lastResize[v][2]
            /\ b.payload.data[3] = hist'.lastResize[v][1]
            /\ b.snapshot = sess'[b.sess].viewers

\* With no resize on its way to a running agent of a live session, the
\* session's rows and cols are the window size of the PTY.
C22_Agree ==
    \A a \in Agents :
        (acl[a] = "running" /\ sess[a].alive /\ ~HasResize(toAgent[a]))
            => ptySize[a] = <<sess[a].rows, sess[a].cols>>

\* C22: a resize frame of a viewer of a live session sets the session's
\* rows and cols to the frame's values and is forwarded to the agent, which
\* sets the PTY window size to the same values; the meta broadcast it
\* causes carries the frame's cols and rows and goes to every attached
\* viewer; afterwards the session's rows and cols and the PTY's agree.
C22_ResizeAgrees ==
    /\ []C22_Agree
    /\ [][C22_ServerStep /\ C22_AgentStep /\ C22_MetaStep]_vars

HasSessionFrame(q) == \E i \in DOMAIN q : q[i].type = "session"

\* An agent handler that ended in the handshake has no session: none is
\* made, none is in the registry, no reply was sent, the channel is closed.
C23_NoSession ==
    \A a \in Agents :
        (ah[a].pc = "done" /\ ~sess[a].made) =>
            /\ achan[a] = "closed"
            /\ ~HasSessionFrame(toAgent[a])
            /\ \A sid \in Sids : sessions[sid] # a

C23_Step ==
    \A a \in Agents :
        (ah[a].pc = "wait_register" /\ ah'[a].pc = "done") =>
            /\ sessions' = sessions /\ sess' = sess /\ timers' = timers
            /\ hist'.issued = hist.issued
            /\ toAgent' = toAgent /\ vrecv' = vrecv /\ bc' = bc
            /\ achan'[a] = "closed"

\* C23: the step in which an agent handler ends its handshake without a
\* register frame (timeout, unparseable frame, wrong type) leaves the
\* registry, every session and every timer as they were, sends nothing and
\* closes the channel; such a handler never has a session.
C23_BadRegistration == []C23_NoSession /\ [][C23_Step]_vars

\* C23 witness: one agent connection failed its handshake while the
\* session of another is in the registry.
C23_Witness ==
    \E a \in Agents : \E b \in Agents :
        /\ ah[a].pc = "done" /\ ~sess[a].made /\ achan[a] = "closed"
        /\ sess[b].made /\ sess[b].alive /\ sessions[sess[b].id] = b

\* A session whose agent has not been marked disconnected is stored in the
\* registry under its id, where /api/sessions finds it, alive.
C24_Listed ==
    \A a \in Agents :
        (sess[a].made /\ sess[a].alive) => sessions[sess[a].id] = a

\* The step that registers: the reply carries the id the session is
\* stored under.
C24_Step ==
    \A a \in Agents :
        (~sess[a].made /\ sess'[a].made) =>
            /\ sessions'[sess'[a].id] = a
            /\ sess'[a].alive
            /\ achan[a] = "open" =>
                 /\ toAgent'[a] # <<>>
                 /\ toAgent'[a][Len(toAgent'[a])].type = "session"
                 /\ toAgent'[a][Len(toAgent'[a])].seq = sess'[a].id

\* C24: the sid of the session reply is the key under which the new
\* session is stored in the registry, and the session stays stored under
\* it, alive, from the reply until its agent is marked disconnected.
C24_SidIsKey == []C24_Listed /\ [][C24_Step]_vars

\* The ids under which session a is stored in the registry.
Entries(a) == {sid \in Sids : sessions[sid] = a}

\* A step changes something of session a: its registry entry, its fields
\* (alive, agent, viewer set, scrollback, cols, rows), its agent channel,
\* or what has been sent to its agent or to one of its viewers.
Changed(a) ==
    \/ {sid \in Sids : sessions'[sid] = a} # Entries(a)
    \/ sess'[a] # sess[a]
    \/ achan'[a] # achan[a]
    \/ toAgent'[a] # toAgent[a]
    \/ \E v \in Viewers : (vh[v].sess = a \/ vh'[v].sess = a) /\ vrecv'[v] # vrecv[v]

\* A step in which a prune callback runs, and the sessions whose
\* disconnect scheduled it.
PruneRuns == Cardinality(timers') < Cardinality(timers)

PruneOwners == {t.owner : t \in timers \ timers'}

C25_Step ==
    /\ (\A a \in Agents : sess'[a].made = sess[a].made) =>
          \A a \in Agents : \A b \in Agents :
              (a # b /\ Changed(a)) => ~Changed(b)
    /\ PruneRuns =>
          \A a \in PruneOwners : \A b \in Agents : b # a => ~Changed(b)

\* C25: a step that is not a registration changes at most one session
\* (registry entry, alive, agent, agent channel, viewer set, scrollback,
\* cols, rows, frames sent to its agent and viewers), and the prune
\* scheduled by the disconnect of one session changes no other session.
C25_NoCrossing == [][C25_Step]_vars

\* The server tasks suspended in a send on the channel of viewer w: a
\* broadcast whose current send is to w, and w's own handler in the send
\* of its replay, its meta or a pong.
ViewerChannelWriters(w) ==
    {t \in Tasks : bc[t].st = "run" /\ bc[t].cur = w}
      \cup (IF vh[w].pc \in {"sent_replay", "sent_meta", "sent_pong"}
            THEN {<<"H", w>>} ELSE {})

\* The server tasks suspended in a send on the channel of agent a: its
\* handler in the send of the session reply, and the viewer handlers
\* forwarding a ping, an input or a resize.
AgentChannelWriters(a) ==
    {<<"V", v>> : v \in {u \in Viewers :
                           vh[u].sess = a /\ vh[u].pc \in {"fwd", "fwd_resize"}}}
      \cup (IF ah[a].pc = "sending_session" THEN {<<"A", a>>} ELSE {})

\* C26: in no reachable state are two server tasks inside a send on the
\* same viewer channel or on the same agent channel.
C26_OneWriter ==
    /\ \A w \in Viewers : Cardinality(ViewerChannelWriters(w)) <= 1
    /\ \A a \in Agents : Cardinality(AgentChannelWriters(a)) <= 1

\* C27: an agent one of whose loops has completed (the PTY read returned
\* nothing or failed, or the server closed the channel) eventually tears
\* down, whether or not a frame or PTY bytes arrive; and an agent that has
\* torn down eventually has a new session, under an id different from its
\* previous one.
C27_TearsDownAndReconnects ==
    /\ \A a \in Agents : (acl[a] \in {"ptydone", "srvdone"}) ~> (acl[a] = "stopped")
    /\ (acl[1] = "stopped") ~> (sess[2].made /\ sess[2].id # sess[1].id)

RECURSIVE Pow(_, _)
Pow(b, n) == IF n = 0 THEN 1 ELSE b * Pow(b, n - 1)

\* min(2 * 1.5^(k-1), 30) seconds, in 64ths of a second.
Backoff(k) == Min((Seconds(2) * Pow(3, k - 1)) \div Pow(2, k - 1), Seconds(30))

\* C28: with reconnect enabled, the wait before the k-th attempt in a row
\* without a connect is min(2 * 1.5^(k-1), 30) seconds: it is between 2 s
\* and 30 s, it does not decrease from one failed attempt to the next, and
\* the wait that follows a successful connect is 2 s.
C28_Backoff ==
    \A i \in DOMAIN run.waits :
        LET w == run.waits[i] IN
        /\ run.reconnect
        /\ w.d = Backoff(w.k)
        /\ Seconds(2) <= w.d /\ w.d <= Seconds(30)
        /\ w.k = 1 => w.d = Seconds(2)
        /\ w.k > 1 =>
             /\ i > 1
             /\ run.waits[i - 1].k = w.k - 1
             /\ run.waits[i - 1].d <= w.d

\* C28 witness: nine attempts in a row failed, the last two waits being
\* 30 s, then a connect succeeded and the wait after it was 2 s.
C28_Witness ==
    /\ Len(run.waits) = 10
    /\ run.waits[8].k = 8 /\ run.waits[8].d = Seconds(30)
    /\ run.waits[9].k = 9 /\ run.waits[9].d = Seconds(30)
    /\ run.waits[7].d < Seconds(30)
    /\ run.waits[10].k = 1 /\ run.waits[10].d = Seconds(2)

C29_Step ==
    \A sid \in Sids :
        (sessions[sid] # NoSess /\ sessions'[sid] = NoSess) =>
            /\ PruneRuns
            /\ ~sess[sessions[sid]].alive
            /\ sess[sessions[sid]].agent = NoAgent

\* C29: a registry entry is removed only by a prune callback, and the
\* entry a prune callback removes is that of a dead session; the session
\* of an attached agent is never removed.
C29_PruneOnlyDead == [][C29_Step]_vars

\* The relay loop takes the agent's output frames in the order the agent
\* sent them: the n-th it processes is the n-th the agent produced.
C30_Step ==
    \A a \in Agents :
        hist'.nout[a] # hist.nout[a] =>
            /\ toServer[a] # <<>>
            /\ Head(toServer[a]).type = "output"
            /\ Head(toServer[a]).seq = hist'.nout[a]
            /\ hist'.nout[a] = hist.nout[a] + 1

\* C30: the live output frames sent to a viewer are in the order the
\* agent sent the outputs, whatever meta, pong and disconnect frames of
\* other broadcasts lie between them.
C30_LiveInOrder ==
    /\ [](\A v \in Viewers : \A i \in LivePos(v) : \A j \in LivePos(v) :
             i < j => vrecv[v][i].seq < vrecv[v][j].seq)
    /\ [][C30_Step]_vars

\* C30 witness: a viewer was sent output 1, then the meta frame of
\* another viewer's resize, then output 2, and it was sent a pong.
C30_Witness ==
    \E v \in Viewers : \E i \in LivePos(v) : \E j \in LivePos(v) :
        /\ vrecv[v][i].seq = 1 /\ vrecv[v][j].seq = 2
        /\ \E m \in DOMAIN vrecv[v] :
             i < m /\ m < j /\ vrecv[v][m].type = "meta" /\ vrecv[v][m].src = "resize"
        /\ \E m \in DOMAIN vrecv[v] : vrecv[v][m].type = "pong"

AgentPongFrame == Frame("pong", <<>>, 0, "agent")

AgentPongCount(q) == Cardinality({i \in DOMAIN q : q[i] = AgentPongFrame})

\* The viewers a broadcast had tried before a step (none when the step
\* starts it).
TriedBefore(t) == IF bc[t].st = "run" THEN bc[t].tried ELSE {}

C31_Step ==
    \A a \in Agents :
        LET t  == <<"A", a>>
            b  == bc[t]
            nb == bc'[t]
        IN  \* the agent takes a ping: one pong goes back
            /\ (/\ acl[a] = "running"
                /\ achan[a] = "open"
                /\ toAgent[a] # <<>>
                /\ Head(toAgent[a]).type = "ping"
                /\ toAgent'[a] = Tail(toAgent[a]))
                  => toServer'[a] = Append(toServer[a], AgentPongFrame)
            \* the relay loop takes a pong: the fan-out is to the viewer set
            /\ (/\ ah[a].pc = "recv"
                /\ toServer[a] # <<>>
                /\ Head(toServer[a]).type = "pong"
                /\ toServer'[a] = Tail(toServer[a]))
                  => IF sess[a].viewers = {}
                     THEN vrecv' = vrecv /\ ah'[a].pc = "recv"
                     ELSE /\ nb.st = "run" /\ nb.payload = AgentPongFrame
                          /\ nb.snapshot = sess[a].viewers
                          /\ ah'[a].pc = "bcast"
            \* each send of the fan-out is one pong to one viewer not yet tried
            /\ (nb.st = "run" /\ nb.payload = AgentPongFrame /\ nb.tried # TriedBefore(t))
                  => \E w \in nb.snapshot \ TriedBefore(t) :
                        /\ nb.tried = TriedBefore(t) \cup {w}
                        /\ vchan[w] = "open" => vrecv'[w] = Append(vrecv[w], AgentPongFrame)
                        /\ \A u \in Viewers \ {w} : vrecv'[u] = vrecv[u]
            \* the fan-out returns only when every viewer has been tried
            /\ (FanOutReturns(a) /\ b.payload = AgentPongFrame) => b.tried = b.snapshot

C32_Removed ==
    \A v \in Viewers : vh[v].pc = "done" => \A a \in Agents : v \notin sess[a].viewers

C32_Step ==
    /\ \A v \in Viewers :
         \* a handler past its join never joins again
         /\ vh[v].pc \notin {"idle", "sent_replay", "sent_meta"}
               => vh'[v].pc \notin {"idle", "sent_replay", "sent_meta"}
         \* a viewer enters a viewer set only at the end of its join
         /\ \A a \in Agents :
              (v \notin sess[a].viewers /\ v \in sess'[a].viewers)
                 => vh[v].pc = "sent_meta" /\ vh'[v].pc = "loop" /\ vh[v].sess = a
    \* a fan-out that starts takes the viewer set as it is
    /\ \A t \in Tasks :
         (bc[t].st # "run" /\ bc'[t].st = "run")
            => /\ bc'[t].snapshot = sess'[bc'[t].sess].viewers
               /\ \A w \in bc'[t].snapshot : vh[w].pc # "done"
    \* and sends only to viewers of its snapshot
    /\ \A t \in Tasks :
         bc'[t].st = "run" => bc'[t].tried \subseteq bc'[t].snapshot

\* C32: a viewer whose handler has ended is in no viewer set; a viewer
\* enters a viewer set once, at the end of its join, so one that was
\* removed is never added again; and a fan-out that starts sends only to
\* the viewers then in the set, none of which has an ended handler.
C32_RemovedForGood == []C32_Removed /\ [][C32_Step]_vars

\* C32 witness: a viewer that had been sent output 1 closed its channel
\* and its handler removed it; output 2 went to the other viewer only.
C32_Witness ==
    \E v \in Viewers : \E u \in Viewers :
        /\ u # v
        /\ vh[v].pc = "done" /\ vchan[v] = "closed"
        /\ LiveCount(v, 1) = 1 /\ LiveCount(v, 2) = 0
        /\ LiveCount(u, 2) = 1
        /\ bc[<<"A", vh[u].sess>>].st = "idle"
        /\ sess[vh[u].sess].viewers = {u}


\* The handler of viewer v is past `sess.viewers.add` and has not ended.
InLoop(v) == vh[v].pc \in {"loop", "fwd", "sent_pong", "fwd_resize", "bcast"}

C33_State ==
    /\ \A v \in Viewers : \A a \in Agents :
         v \in sess[a].viewers => InLoop(v) /\ vh[v].sess = a
    /\ \A v \in Viewers :
         (InLoop(v) /\ vchan[v] # "closed") => v \in sess[vh[v].sess].viewers
    /\ \A t \in Tasks :
         bc[t].st = "run" =>
            /\ bc[t].dead \subseteq bc[t].tried
            /\ \A w \in bc[t].dead : vchan[w] = "closed"

C33_Step ==
    /\ \A t \in Tasks :
         (bc[t].st = "run" /\ bc'[t].st # "run")
            => sess'[bc[t].sess].viewers = sess[bc[t].sess].viewers \ bc[t].dead
    /\ \A v \in Viewers : \A a \in Agents :
         (v \in sess[a].viewers /\ v \notin sess'[a].viewers)
            => \/ vh'[v].pc = "done"
               \/ \E t \in Tasks : /\ bc[t].st = "run" /\ bc'[t].st # "run"
                                   /\ bc[t].sess = a /\ v \in bc[t].dead

\* C33: the viewer set holds only viewers whose handler has joined and not
\* ended, and holds every such viewer whose channel is not closed; a
\* fan-out that finishes removes exactly the viewers whose send it saw
\* fail from the set as it then is, so a viewer that joined meanwhile
\* stays and one that left is not put back; and a viewer leaves the set
\* only when its handler ends or a finishing fan-out saw its send fail.
C33_NoLostUpdate == []C33_State /\ [][C33_Step]_vars

\* C33 witness: the fan-out of output 1 found viewer v closed and removed
\* it; viewer u, added after that fan-out had taken its snapshot, was not
\* sent the frame and is in the set.
C33_Witness ==
    \E v \in Viewers : \E u \in Viewers :
        /\ u # v
        /\ hist.nout[1] = 1
        /\ bc[<<"A", 1>>].st = "idle"
        /\ vh[v].pc = "loop" /\ vchan[v] = "closed"
        /\ vh[u].pc = "loop" /\ vchan[u] = "open"
        /\ hist.addedAt[u] = 1 /\ LiveCount(u, 1) = 0
        /\ sess[1].viewers = {u}


\* C34 as stated: when the agent reads a frame that is no JSON, has no
\* type or has an unknown type, its session keeps running, its channel
\* stays open and nothing is written to the PTY.
C34_Step ==
    \A a \in Agents :
        (/\ acl[a] = "running"
         /\ toAgent[a] # <<>>
         /\ Head(toAgent[a]).type \in AgentRaisingKinds \cup AgentSkippedKinds
         /\ toAgent'[a] = Tail(toAgent[a]))
           => /\ acl'[a] = "running"
              /\ achan'[a] = achan[a]
              /\ ptyWritten'[a] = ptyWritten[a]
              /\ ptySize'[a] = ptySize[a]

C34_MalformedIgnored == [][C34_Step]_vars


\* The step is viewer v's handler reading resize frame f with both fields
\* or with one left out.
ReadsResize(v, f) ==
    /\ vh[v].pc = "loop"
    /\ fromViewer[v] # <<>>
    /\ f = Head(fromViewer[v])
    /\ fromViewer'[v] = Tail(fromViewer[v])
    /\ f.type \in {"resize"} \cup PartialResizeKinds

C35_Step ==
    \A a \in Agents :
        \* registration gives the session the sizes of the register frame
        /\ (~sess[a].made /\ sess'[a].made)
              => <<sess'[a].rows, sess'[a].cols>> = RegisterDims
        \* afterwards only a resize frame changes them, to its values
        /\ (sess[a].made /\ sess'[a].made
              /\ <<sess'[a].rows, sess'[a].cols>> # <<sess[a].rows, sess[a].cols>>)
              => \E v \in Viewers :
                    /\ vh[v].sess = a
                    /\ ReadsResize(v, Head(fromViewer[v]))
        /\ \A v \in Viewers :
             (vh[v].sess = a /\ fromViewer[v] # <<>> /\ ReadsResize(v, Head(fromViewer[v])))
                => /\ sess'[a].rows = ResizeRows(Head(fromViewer[v]), sess[a].rows)
                   /\ sess'[a].cols = ResizeCols(Head(fromViewer[v]), sess[a].cols)

\* C35 as stated: a session's rows and cols are those of its register
\* frame until a viewer's resize frame is read, then those of the resize
\* frame read last (a field the frame leaves out keeps its value), and no
\* other step changes them.
C35_DimsFollowResize == [][C35_Step]_vars


\* C36 as stated: when the agent has applied a resize frame that leaves
\* out rows or cols, no other resize frame is on its way to it and no
\* viewer's handler has failed, the PTY's size is the session's rows and
\* cols.
C36_Step ==
    \A a \in Agents :
        (/\ acl[a] = "running"
         /\ toAgent[a] # <<>>
         /\ Head(toAgent[a]).type \in PartialResizeKinds
         /\ toAgent'[a] = <<>>
         /\ \A v \in Viewers : vh[v].pc # "done")
           => ptySize'[a] = <<sess'[a].rows, sess'[a].cols>>

C36_PartialResizeAgrees == [][C36_Step]_vars


\* The replay frames viewer v has been sent.
ReplayFrames(v) == SelectSeq(vrecv[v], IsReplay)

C37_Replay ==
    \A v \in Viewers :
        (Joined(v) /\ hist.joinedDead[v]) =>
            LET s == sess[vh[v].sess] IN
            /\ ~s.alive
            /\ IF s.buf = <<>>
               THEN ReplayFrames(v) = <<>>
               ELSE /\ Len(ReplayFrames(v)) = 1
                    /\ IsReplay(vrecv[v][1])
                    /\ vrecv[v][1].data = scrollback_text(s.buf)

C37_Step ==
    \A a \in Agents :
        (sess[a].made /\ ~sess[a].alive)
           => /\ sess'[a].buf = sess[a].buf
              /\ ~sess'[a].alive

\* C37: a session that is no longer alive stays so and its scrollback
\* buffer does not change; a viewer that joined it after the agent had
\* gone was sent, as its first frame, the scrollback the session holds in
\* every later state (no replay frame when it is empty), so all such
\* viewers received the same replay.
C37_ScrollbackFrozen == []C37_Replay /\ [][C37_Step]_vars

\* C37 witness: two viewers joined after the agent had gone and both were
\* sent the same, non-empty replay.
C37_Witness ==
    /\ sess[1].made /\ ~sess[1].alive /\ sess[1].buf # <<>>
    /\ \A v \in Viewers :
         /\ vh[v].sess = 1 /\ hist.joinedDead[v]
         /\ Len(ReplayFrames(v)) = 1
         /\ vh[v].pc = "loop"
    /\ ReplayFrames(1) = ReplayFrames(2)


\* The pending prune timers that will pop registry key sid.
TimersFor(sid) == {t \in timers : t.sid = sid}

\* C38 as stated: every session in the registry has its agent attached or
\* exactly one pending prune timer, and never more than one.
C38_OneTimer ==
    \A sid \in Sids :
        sessions[sid] # NoSess =>
            /\ \/ sess[sessions[sid]].agent # NoAgent
               \/ Cardinality(TimersFor(sid)) = 1
            /\ Cardinality(TimersFor(sid)) <= 1


RECURSIVE Returned(_)
\* The chunks of the first n /poll responses, in the order returned.
Returned(n) == IF n = 0 THEN <<>> ELSE Returned(n - 1) \o app.resp[n].out

\* How often chunk k occurs in the sequence s.
Occurs(s, k) == Cardinality({i \in DOMAIN s : s[i] = k})

\* The chunks poll handlers hold between wait_for and their response.
HeldBy(p) == IF app.polls[p].pc = "resume" THEN app.polls[p].out ELSE <<>>

RECURSIVE Held(_)
Held(n) == IF n = 0 THEN <<>> ELSE Held(n - 1) \o HeldBy(n)

\* C39 as stated: every chunk put on the output queue is in the queue, in
\* the hands of one poll handler or in one /poll response, once in all,
\* and the responses, in the order they are returned, hold the chunks in
\* the order they were queued.
C39_ExactlyOnceInOrder ==
    LET out == Returned(Len(app.resp))
        put == app.nsched - Len(app.calls)
    IN  /\ \A k \in 1..put :
             Occurs(app.queue, k) + Occurs(Held(MaxPolls), k) + Occurs(out, k) = 1
        /\ \A i \in DOMAIN out : \A j \in DOMAIN out : i < j => out[i] < out[j]


C40_Step ==
    app.cl = "done" =>
        /\ app'.nforks = app.nforks
        /\ ~app.alive => ~app'.alive

\* C40 as stated: once cleanup_old_sessions has popped the session, set
\* alive False, killed the child and closed the descriptor, the reader
\* thread forks no shell and does not set alive True again.
C40_NoRespawnAfterCleanup == [][C40_Step]_vars

=============================================================================
